---------------------------- MODULE Spec2Model ----------------------------
(***************************************************************************)
(* Verification model of scikits.statsmodels / nipy.fixes.scipy.stats.models *)
(*                                                                         *)
(* Part I models LikelihoodModelResults (model.py): the results object     *)
(* holds params, normalized_cov_params, scale and a reference to its model *)
(* (df_resid); a caller invokes t, cov_params, t_test, f_test and conf_int *)
(* on it and receives either a value or a raised exception.                *)
(*                                                                         *)
(* Numbers.  Floating point values are modelled exactly: a rational is a   *)
(* reduced pair <<n, d>> with d > 0, and a value that went through np.sqrt *)
(* is a quadratic surd a + b*sqrt(m) with m square free, or one of the     *)
(* IEEE specials nan, +inf, -inf.  Rounding error is not modelled.         *)
(***************************************************************************)
EXTENDS Integers, Sequences, FiniteSets, TLC

VARIABLES
    self,   \* the LikelihoodModelResults instance (its fields never change)
    pc,     \* "idle": no call in progress; "returned": a call has returned
    call,   \* the method last invoked and its arguments
    ret     \* what that invocation returned or raised

vars == <<self, pc, call, ret>>

-----------------------------------------------------------------------------
(* Bounds of the model *)

\* entries of normalized_cov_params range over -MaxCov..MaxCov
MaxCov == 1
\* entries of params range over 0..MaxParam
MaxParam == 1

-----------------------------------------------------------------------------
(* Exact rational arithmetic: <<n, d>>, d > 0, gcd(n, d) = 1 *)

Abs(x) == IF x < 0 THEN -x ELSE x

RECURSIVE GCD(_, _)
GCD(a, b) == IF b = 0 THEN a ELSE GCD(b, a % b)

Rat(n, d) ==
    LET s == IF d < 0 THEN -1 ELSE 1
        g == GCD(Abs(n), Abs(d))
    IN  <<(s * n) \div g, (s * d) \div g>>

Q(n) == <<n, 1>>
Zero == <<0, 1>>
One == <<1, 1>>

RAdd(x, y) == Rat(x[1] * y[2] + y[1] * x[2], x[2] * y[2])
RNeg(x) == <<-x[1], x[2]>>
RSub(x, y) == RAdd(x, RNeg(y))
RMul(x, y) == Rat(x[1] * y[1], x[2] * y[2])
\* y # 0
RDiv(x, y) == Rat(x[1] * y[2], x[2] * y[1])
RSign(x) == IF x[1] > 0 THEN 1 ELSE IF x[1] < 0 THEN -1 ELSE 0
RLt(x, y) == x[1] * y[2] < y[1] * x[2]

-----------------------------------------------------------------------------
(* Floating point values that may have gone through a square root:        *)
(* [k |-> "fin", a, b, m] is a + b*sqrt(m); m = 1 exactly when b = 0.      *)

Fin(a, b, m) ==
    IF b = Zero \/ m = 1
    THEN [k |-> "fin", a |-> IF m = 1 THEN RAdd(a, b) ELSE a, b |-> Zero, m |-> 1]
    ELSE [k |-> "fin", a |-> a, b |-> b, m |-> m]
NaN == [k |-> "nan", a |-> Zero, b |-> Zero, m |-> 1]
PInf == [k |-> "+inf", a |-> Zero, b |-> Zero, m |-> 1]
NInf == [k |-> "-inf", a |-> Zero, b |-> Zero, m |-> 1]
FromRat(q) == Fin(q, Zero, 1)

\* the largest s with s*s dividing n (n >= 1)
LargestSquare(n) ==
    LET roots == {s \in 1..n : s * s <= n /\ n % (s * s) = 0}
    IN  CHOOSE s \in roots : \A u \in roots : u <= s

\* np.sqrt of a rational: nan below zero
Sqrt(q) ==
    IF q[1] < 0 THEN NaN
    ELSE IF q[1] = 0 THEN FromRat(Zero)
    ELSE LET sn == LargestSquare(q[1])
             sd == LargestSquare(q[2])
             rn == q[1] \div (sn * sn)
             rd == q[2] \div (sd * sd)
         IN  Fin(Zero, Rat(sn, sd * rd), rn * rd)

\* sign of a finite value a + b*sqrt(m)
FSign(x) ==
    LET sa == RSign(x.a)
        sb == RSign(x.b)
    IN  IF sb = 0 THEN sa
        ELSE IF sa = 0 THEN sb
        ELSE IF sa = sb THEN sa
        ELSE LET a2 == RMul(x.a, x.a)
                 b2 == RMul(RMul(x.b, x.b), Q(x.m))
             IN  IF a2 = b2 THEN 0
                 ELSE IF RLt(b2, a2) THEN sa ELSE sb

\* x * q for a rational q (q finite; nan and inf follow IEEE)
FScale(x, q) ==
    IF x.k = "fin" THEN Fin(RMul(x.a, q), RMul(x.b, q), x.m)
    ELSE IF x.k = "nan" \/ q = Zero THEN NaN
    ELSE IF (x.k = "+inf") = (RSign(q) > 0) THEN PInf ELSE NInf

\* 1 / x for a finite non-zero x: (a - b sqrt m) / (a^2 - b^2 m)
FInv(x) ==
    LET den == RSub(RMul(x.a, x.a), RMul(RMul(x.b, x.b), Q(x.m)))
    IN  Fin(RDiv(x.a, den), RNeg(RDiv(x.b, den)), x.m)

\* x * y for finite values over the same radicand (or one of them rational)
FMul(x, y) ==
    LET m == IF x.m = 1 THEN y.m ELSE x.m
    IN  Fin(RAdd(RMul(x.a, y.a), RMul(RMul(x.b, y.b), Q(m))),
            RAdd(RMul(x.a, y.b), RMul(x.b, y.a)), m)

\* x + y, same proviso
FAdd(x, y) ==
    LET m == IF x.m = 1 THEN y.m ELSE x.m
    IN  Fin(RAdd(x.a, y.a), RAdd(x.b, y.b), m)
FSub(x, y) == FAdd(x, FScale(y, Q(-1)))

\* x <= y for finite values, same proviso
FLe(x, y) == FSign(FSub(y, x)) >= 0

\* IEEE division of a rational by a float value
FDivRat(q, x) ==
    IF x.k = "nan" THEN NaN
    ELSE IF x.k # "fin" THEN FromRat(Zero)
    ELSE IF FSign(x) = 0
         THEN (IF RSign(q) > 0 THEN PInf ELSE IF RSign(q) < 0 THEN NInf ELSE NaN)
    ELSE FScale(FInv(x), q)

-----------------------------------------------------------------------------
(* numpy arrays: [nd |-> number of axes, v |-> the data].  A 0-d array      *)
(* holds its scalar, a 1-d array a sequence, a 2-d array a sequence of     *)
(* rows.  Python's None is the value with nd = -1.                         *)

None == [nd |-> -1, v |-> <<>>]
IsNone(x) == x.nd = -1
A0(x) == [nd |-> 0, v |-> x]
A1(s) == [nd |-> 1, v |-> s]
A2(rows) == [nd |-> 2, v |-> rows]

\* ndarray.shape
Shape(a) ==
    IF a.nd = 0 THEN <<>>
    ELSE IF a.nd = 1 THEN <<Len(a.v)>>
    ELSE <<Len(a.v), Len(a.v[1])>>

\* np.squeeze: drop every axis of length one
squeeze(a) ==
    IF a.nd = 1 THEN (IF Len(a.v) = 1 THEN A0(a.v[1]) ELSE a)
    ELSE IF a.nd = 2 THEN
        IF Len(a.v) = 1 /\ Len(a.v[1]) = 1 THEN A0(a.v[1][1])
        ELSE IF Len(a.v) = 1 THEN A1(a.v[1])
        ELSE IF Len(a.v[1]) = 1 THEN A1([i \in 1..Len(a.v) |-> a.v[i][1]])
        ELSE a
    ELSE a

\* np.atleast_2d
atleast_2d(a) ==
    IF a.nd = 0 THEN A2(<< <<a.v>> >>)
    ELSE IF a.nd = 1 THEN A2(<<a.v>>)
    ELSE a

\* np.transpose: reverses the axes, so only a 2-d array changes
transpose(a) ==
    IF a.nd = 2
    THEN A2([j \in 1..Len(a.v[1]) |-> [i \in 1..Len(a.v) |-> a.v[i][j]]])
    ELSE a

\* x[:, None] of a 1-d array: a column
Column(s) == A2([i \in 1..Len(s) |-> <<s[i]>>])

RECURSIVE RSum(_, _)
\* sum of f[1..n], rationals
RSum(f, n) == IF n = 0 THEN Zero ELSE RAdd(RSum(f, n - 1), f[n])

\* np.dot raises ValueError ("objects are not aligned") unless this holds
DotAligned(a, b) ==
    \/ a.nd = 0
    \/ b.nd = 0
    \/ a.nd = 1 /\ b.nd = 1 /\ Len(a.v) = Len(b.v)
    \/ a.nd = 2 /\ b.nd = 1 /\ Len(a.v[1]) = Len(b.v)
    \/ a.nd = 1 /\ b.nd = 2 /\ Len(a.v) = Len(b.v)
    \/ a.nd = 2 /\ b.nd = 2 /\ Len(a.v[1]) = Len(b.v)

\* array * scalar
Times(a, x) ==
    IF a.nd = 0 THEN A0(RMul(a.v, x))
    ELSE IF a.nd = 1 THEN A1([i \in 1..Len(a.v) |-> RMul(a.v[i], x)])
    ELSE A2([i \in 1..Len(a.v) |-> [j \in 1..Len(a.v[1]) |-> RMul(a.v[i][j], x)]])

\* np.sqrt of an array, elementwise
sqrt(a) ==
    IF a.nd = 0 THEN A0(Sqrt(a.v))
    ELSE IF a.nd = 1 THEN A1([i \in 1..Len(a.v) |-> Sqrt(a.v[i])])
    ELSE A2([i \in 1..Len(a.v) |-> [j \in 1..Len(a.v[1]) |-> Sqrt(a.v[i][j])]])

\* np.dot of rational arrays (DotAligned assumed)
dot(a, b) ==
    IF a.nd = 0 THEN Times(b, a.v)
    ELSE IF b.nd = 0 THEN Times(a, b.v)
    ELSE IF a.nd = 1 /\ b.nd = 1
        THEN A0(RSum([k \in 1..Len(a.v) |-> RMul(a.v[k], b.v[k])], Len(a.v)))
    ELSE IF a.nd = 2 /\ b.nd = 1
        THEN A1([i \in 1..Len(a.v) |->
                 RSum([k \in 1..Len(b.v) |-> RMul(a.v[i][k], b.v[k])], Len(b.v))])
    ELSE IF a.nd = 1 /\ b.nd = 2
        THEN A1([j \in 1..Len(b.v[1]) |->
                 RSum([k \in 1..Len(a.v) |-> RMul(a.v[k], b.v[k][j])], Len(a.v))])
    ELSE A2([i \in 1..Len(a.v) |-> [j \in 1..Len(b.v[1]) |->
                 RSum([k \in 1..Len(b.v) |-> RMul(a.v[i][k], b.v[k][j])], Len(b.v))]])

\* np.diag of a 2-d array: its diagonal
diag(a) == A1([i \in 1..Len(a.v) |-> a.v[i][i]])

\* the sequence s without its k-th element
Drop(s, k) == [i \in 1..(Len(s) - 1) |-> IF i < k THEN s[i] ELSE s[i + 1]]

\* square matrix m (a sequence of rows) without row i and column j
Minor(m, i, j) == LET rows == Drop(m, i) IN [r \in 1..Len(rows) |-> Drop(rows[r], j)]

RECURSIVE Det(_)
\* determinant by expansion along the first row
Det(m) ==
    IF Len(m) = 1 THEN m[1][1]
    ELSE RSum([j \in 1..Len(m) |->
                 RMul(RMul(Q(IF j % 2 = 1 THEN 1 ELSE -1), m[1][j]),
                      Det(Minor(m, 1, j)))], Len(m))

\* np.linalg.inv raises LinAlgError ("Singular matrix") exactly here
Singular(a) == Det(a.v) = Zero

\* np.linalg.inv of a non-singular square matrix: adjugate / determinant
inv(a) ==
    LET n == Len(a.v)
        d == Det(a.v)
    IN  IF n = 1 THEN A2(<< <<RDiv(One, d)>> >>)
        ELSE A2([i \in 1..n |-> [j \in 1..n |->
                 RDiv(RMul(Q(IF (i + j) % 2 = 0 THEN 1 ELSE -1),
                           Det(Minor(a.v, j, i))), d)]])

-----------------------------------------------------------------------------
(* What a call gives back: a value, or a raised exception *)

Ok(v) == [kind |-> "ok", exc |-> "", msg |-> "", val |-> v]
Raise(exc, msg) == [kind |-> "raise", exc |-> exc, msg |-> msg, val |-> <<>>]
NoRet == [kind |-> "none", exc |-> "", msg |-> "", val |-> <<>>]

\* an integer index array (0-based, as in Python) is within 0..n-1
InRange(column, n) ==
    IF column.nd = 0 THEN column.v \in 0..(n - 1)
    ELSE \A i \in 1..Len(column.v) : column.v[i] \in 0..(n - 1)

\* x[column] of a 1-d array x, for a 0-d or 1-d index array
Take(x, column) ==
    IF column.nd = 0 THEN A0(x[column.v + 1])
    ELSE A1([i \in 1..Len(column.v) |-> x[column.v[i] + 1]])

-----------------------------------------------------------------------------
(* LikelihoodModelResults *)

NParams(slf) == Len(slf.params)

\* cov_params' early exits without the test of other against r_matrix
cov_params_guard_no_other_test(slf, r_matrix, column, other) ==
    IF IsNone(slf.normalized_cov_params)
    THEN Raise("ValueError",
               "need covariance of parameters for computing (unnormalized) covariances")
    ELSE IF ~IsNone(column) /\ (~IsNone(r_matrix) \/ ~IsNone(other))
    THEN Raise("ValueError", "Column should be specified without other arguments.")
    ELSE NoRet

\* cov_params' early exits returning None, instead of raising, without a covariance
cov_params_guard_returns_none(slf, r_matrix, column, other) ==
    IF IsNone(slf.normalized_cov_params)
    THEN Ok(None)
    ELSE IF ~IsNone(column) /\ (~IsNone(r_matrix) \/ ~IsNone(other))
    THEN Raise("ValueError", "Column should be specified without other arguments.")
    ELSE IF ~IsNone(other) /\ IsNone(r_matrix)
    THEN Raise("ValueError", "other can only be specified with r_matrix")
    ELSE NoRet

\* the early exits of cov_params: the three raise statements that precede any computation
cov_params_guard(slf, r_matrix, column, other) ==
    IF IsNone(slf.normalized_cov_params)
    THEN Raise("ValueError",
               "need covariance of parameters for computing (unnormalized) covariances")
    ELSE IF ~IsNone(column) /\ (~IsNone(r_matrix) \/ ~IsNone(other))
    THEN Raise("ValueError", "Column should be specified without other arguments.")
    ELSE IF ~IsNone(other) /\ IsNone(r_matrix)
    THEN Raise("ValueError", "other can only be specified with r_matrix")
    ELSE NoRet

\* the scale argument ignored: always self.scale
scale_used_ignores_argument(slf, scale) == slf.scale

\* if scale is None: scale = self.scale
scale_used(slf, scale) == IF IsNone(scale) THEN slf.scale ELSE scale.v

cov_params(slf, r_matrix, column, scale, other) ==
    LET early == cov_params_guard(slf, r_matrix, column, other)
        scale1 == scale_used(slf, scale)
        ncp == slf.normalized_cov_params
    IN  IF early.kind # "none" THEN early
        ELSE IF ~IsNone(column)
        THEN IF ~InRange(column, NParams(slf))
             THEN Raise("IndexError", "index out of bounds")
             ELSE IF Shape(column) = <<>>
             THEN Ok(Times(A0(ncp.v[column.v + 1][column.v + 1]), scale1))
             ELSE Ok(Times(A2([i \in 1..Len(column.v) |-> [j \in 1..Len(column.v) |->
                                ncp.v[column.v[i] + 1][column.v[j] + 1]]]), scale1))
        ELSE IF ~IsNone(r_matrix)
        THEN IF Shape(r_matrix) = <<>>
             THEN Raise("ValueError", "r_matrix should be 1d or 2d")
             ELSE LET other1 == IF IsNone(other) THEN r_matrix ELSE other
                  IN  IF ~DotAligned(ncp, transpose(other1))
                         \/ ~DotAligned(r_matrix, dot(ncp, transpose(other1)))
                      THEN Raise("ValueError", "objects are not aligned")
                      ELSE Ok(Times(dot(r_matrix, dot(ncp, transpose(other1))), scale1))
        ELSE Ok(Times(ncp, scale1))

\* a / np.sqrt(c), elementwise over arrays of one shape
DivSqrt(a, c) ==
    IF a.nd = 0 THEN A0(FDivRat(a.v, Sqrt(c.v)))
    ELSE A1([i \in 1..Len(a.v) |-> FDivRat(a.v[i], Sqrt(c.v[i]))])

t(slf, column) ==
    IF IsNone(slf.normalized_cov_params)
    THEN Raise("ValueError", "need covariance of parameters for computing T statistics")
    ELSE
    LET column1 == IF IsNone(column)
                   THEN A1([i \in 1..NParams(slf) |-> i - 1])
                   ELSE column
    IN  IF ~InRange(column1, NParams(slf))
        THEN Raise("IndexError", "index out of bounds")
        ELSE LET _params == Take(slf.params, column1)
                 c == cov_params(slf, None, column1, None, None)
             IN  IF c.kind = "raise" THEN c
                 ELSE LET _cov == IF c.val.nd = 2 THEN diag(c.val) ELSE c.val
                      IN  Ok(DivSqrt(_params, _cov))

\* tools.recipr on one entry: x = maximum(X, 0); greater(x, 0) / (x + less_equal(x, 0))
recipr(X) ==
    IF X.k = "nan" THEN NaN
    ELSE LET x == IF X.k = "-inf" THEN FromRat(Zero)
                  ELSE IF X.k = "+inf" THEN PInf
                  ELSE IF FSign(X) > 0 THEN X ELSE FromRat(Zero)
         IN  IF x.k = "+inf" THEN FromRat(Zero)
             ELSE IF FSign(x) > 0 THEN FInv(x)
             ELSE FromRat(Zero)

\* contrast.ContrastResults.__init__
ContrastResults(t_, F, sd, effect, df_denom, df_num) ==
    IF ~IsNone(F)
    THEN [F |-> F, df_denom |-> df_denom, df_num |-> df_num]
    ELSE [t |-> t_, sd |-> sd, effect |-> effect, df_denom |-> df_denom]

\* effect * recipr(sd), elementwise over arrays of one shape
TimesRecipr(effect, sd) ==
    IF effect.nd = 0 THEN A0(FScale(recipr(sd.v), effect.v))
    ELSE A1([i \in 1..Len(effect.v) |-> FScale(recipr(sd.v[i]), effect.v[i])])

t_test(slf, r_matrix0, scale) ==
    LET r_matrix == squeeze(r_matrix0)
    IN  IF IsNone(slf.normalized_cov_params)
        THEN Raise("ValueError",
                   "Need covariance of parameters for computing T statistics")
        ELSE IF r_matrix.nd = 1 /\ Shape(r_matrix)[1] # NParams(slf)
        THEN Raise("ValueError", "r_matrix and params are not aligned")
        ELSE IF r_matrix.nd > 1 /\ Shape(r_matrix)[2] # NParams(slf)
        THEN Raise("ValueError", "r_matrix and params are not aligned")
        ELSE
        LET _effect == dot(r_matrix, A1(slf.params))
            c == cov_params(slf, r_matrix, None, None, None)
        IN  IF c.kind = "raise" THEN c
            ELSE LET sd0 == sqrt(c.val)
                     _sd == IF sd0.nd > 1 THEN diag(sd0) ELSE sd0
                     _t == TimesRecipr(_effect, _sd)
                 IN  Ok(ContrastResults(_t, None, _sd, _effect,
                                        slf.model.df_resid, None))

\* numpy broadcasting of two 2-d arrays: each axis equal, or one of them 1
Broadcastable(a, b) ==
    /\ Len(a.v) = Len(b.v) \/ Len(a.v) = 1 \/ Len(b.v) = 1
    /\ Len(a.v[1]) = Len(b.v[1]) \/ Len(a.v[1]) = 1 \/ Len(b.v[1]) = 1

Max(x, y) == IF x >= y THEN x ELSE y

\* a - b of two broadcastable 2-d arrays
Subtract(a, b) ==
    A2([i \in 1..Max(Len(a.v), Len(b.v)) |->
        [j \in 1..Max(Len(a.v[1]), Len(b.v[1])) |->
            RSub(a.v[IF Len(a.v) = 1 THEN 1 ELSE i][IF Len(a.v[1]) = 1 THEN 1 ELSE j],
                 b.v[IF Len(b.v) = 1 THEN 1 ELSE i][IF Len(b.v[1]) = 1 THEN 1 ELSE j])]])

\* a pseudo-inverse in place of np.linalg.inv: never raises (zero for a singular matrix)
linalg_inv_never_raises(a) ==
    IF Singular(a)
    THEN Ok(A2([i \in 1..Len(a.v) |-> [j \in 1..Len(a.v) |-> Zero]]))
    ELSE Ok(inv(a))

\* np.linalg.inv(a) as f_test calls it: the inverse, or LinAlgError for a singular matrix
linalg_inv(a) ==
    IF Singular(a) THEN Raise("LinAlgError", "Singular matrix") ELSE Ok(inv(a))

\* F without the division by J
FValue_undivided(Rbq, invcov, J) == dot(dot(transpose(Rbq), invcov), Rbq)

\* F = np.dot(np.dot(Rbq.T, invcov), Rbq) / J
FValue(Rbq, invcov, J) ==
    Times(dot(dot(transpose(Rbq), invcov), Rbq), RDiv(One, Q(J)))

f_test(slf, r_matrix0, q_matrix0, scale, invcov0) ==
    LET r_matrix == atleast_2d(r_matrix0)
    IN  IF IsNone(slf.normalized_cov_params)
        THEN Raise("ValueError", "need covariance of parameters for computing F statistics")
        ELSE IF ~DotAligned(r_matrix, Column(slf.params))
        THEN Raise("ValueError", "objects are not aligned")
        ELSE
        LET cparams == dot(r_matrix, Column(slf.params))
            J == Shape(r_matrix)[1]
            q1 == IF IsNone(q_matrix0) THEN A1([i \in 1..J |-> Zero]) ELSE q_matrix0
            q_matrix == IF q1.nd = 1 THEN Column(q1.v) ELSE q1
        IN  IF q1.nd = 1 /\ Shape(q_matrix)[1] # J
            THEN Raise("ValueError",
                       "r_matrix and q_matrix must have the same number of rows")
            ELSE IF ~Broadcastable(cparams, q_matrix)
            THEN Raise("ValueError",
                       "shape mismatch: objects cannot be broadcast to a single shape")
            ELSE
            LET Rbq == Subtract(cparams, q_matrix)
                c == cov_params(slf, r_matrix, None, None, None)
                i == IF ~IsNone(invcov0) THEN Ok(invcov0)
                     ELSE IF c.kind = "raise" THEN c
                     ELSE linalg_inv(c.val)
            IN  IF i.kind = "raise" THEN i
                ELSE
                LET invcov == i.val
                IN  IF ~DotAligned(transpose(Rbq), invcov)
                       \/ ~DotAligned(dot(transpose(Rbq), invcov), Rbq)
                    THEN Raise("ValueError", "objects are not aligned")
                    ELSE Ok(ContrastResults(None, FValue(Rbq, invcov, J), None, None,
                                            slf.model.df_resid, Shape(invcov)[1]))

\* the standard errors of the parameter estimates
bse(slf) ==
    LET c == cov_params(slf, None, None, None, None)
    IN  IF c.kind = "raise" THEN c ELSE Ok(sqrt(diag(c.val)))

\* scipy.stats.norm.ppf at the quantiles the model draws, to three decimals
norm_ppf(qtl) ==
    CASE qtl = <<39, 40>> -> Rat(1960, 1000)
      [] qtl = <<19, 20>> -> Rat(1645, 1000)
      [] qtl = <<1, 4>> -> Rat(-674, 1000)

\* scipy.stats.t.ppf at the quantiles and degrees of freedom the model draws
t_ppf(qtl, df) ==
    CASE qtl = <<39, 40>> -> Rat(<<12706, 4303, 3182, 2776>>[df], 1000)
      [] qtl = <<19, 20>> -> Rat(<<6314, 2920, 2353, 2132>>[df], 1000)
      [] qtl = <<1, 4>> -> Rat(<<-1000, -816, -765, -741>>[df], 1000)

\* the rows [lower_i, upper_i] = [x_i - c * se_i, x_i + c * se_i] as zip builds them
ZipBounds(x, c, se) ==
    A2([i \in 1..Len(x.v) |->
        <<FSub(FromRat(x.v[i]), FScale(se.v[i], c)),
          FAdd(FromRat(x.v[i]), FScale(se.v[i], c))>>])

\* the class test without 'DiscreteResults'
uses_norm_without_discrete(slf) == slf.class_name \in {"RLMResults", "GLMResults"}

\* self.__class__.__name__ in ['RLMResults','GLMResults','DiscreteResults']: dist = norm
uses_norm(slf) == slf.class_name \in {"RLMResults", "GLMResults", "DiscreteResults"}

\* conf_int pairing the selected params with the leading, unselected, entries of bse
conf_int_bse_unselected(slf, alpha, cols) ==
    LET qtl == RSub(One, RDiv(alpha, Q(2)))
        b == bse(slf)
        params == A1(slf.params)
    IN  IF b.kind = "raise" THEN b
        ELSE IF IsNone(cols) /\ ~uses_norm(slf)
        THEN Ok(ZipBounds(params, t_ppf(qtl, slf.model.df_resid), b.val))
        ELSE IF IsNone(cols) /\ uses_norm(slf)
        THEN Ok(ZipBounds(params, norm_ppf(qtl), b.val))
        ELSE IF ~InRange(cols, NParams(slf))
        THEN Raise("IndexError", "index out of bounds")
        ELSE IF ~uses_norm(slf)
        THEN Ok(ZipBounds(Take(slf.params, cols), t_ppf(qtl, slf.model.df_resid), b.val))
        ELSE Ok(ZipBounds(Take(slf.params, cols), norm_ppf(qtl), b.val))

conf_int(slf, alpha, cols) ==
    LET qtl == RSub(One, RDiv(alpha, Q(2)))
        b == bse(slf)
        params == A1(slf.params)
    IN  IF b.kind = "raise" THEN b
        ELSE IF IsNone(cols) /\ ~uses_norm(slf)
        THEN Ok(ZipBounds(params, t_ppf(qtl, slf.model.df_resid), b.val))
        ELSE IF IsNone(cols) /\ uses_norm(slf)
        THEN Ok(ZipBounds(params, norm_ppf(qtl), b.val))
        ELSE IF ~InRange(cols, NParams(slf))
        THEN Raise("IndexError", "index out of bounds")
        ELSE IF ~uses_norm(slf)
        THEN Ok(ZipBounds(Take(slf.params, cols), t_ppf(qtl, slf.model.df_resid),
                          Take(b.val.v, cols)))
        ELSE Ok(ZipBounds(Take(slf.params, cols), norm_ppf(qtl), Take(b.val.v, cols)))

-----------------------------------------------------------------------------
(* The results objects and the arguments the model draws *)

\* numbers of parameters p
Dims == {1, 2}
\* numbers of rows of a contrast
RowCounts == {1, 2}
\* entries of contrast matrices
RVals == {0, 1}
\* the scale of a results object
Scales == {One, Q(2)}
\* model.df_resid
DfResids == {1, 2}
\* the class of the results object
ClassNames == {"LikelihoodModelResults", "RegressionResults",
               "GLMResults", "RLMResults", "DiscreteResults"}
\* the alpha levels passed to conf_int: 0.05, 0.10 and (out of range) 1.5
Alphas == {<<1, 20>>, <<1, 10>>, <<3, 2>>}

Vectors(n, S) == [1..n -> {Q(x) : x \in S}]
Matrices(q, n, S) == [1..q -> Vectors(n, S)]

\* the principal minor of m on the rows and columns idx
Det0(m, idx) == Det([i \in 1..Len(idx) |-> [j \in 1..Len(idx) |-> m[idx[i]][idx[j]]]])

IncreasingSeqs(n) ==
    UNION {{s \in [1..k -> 1..n] : \A i \in 1..(k - 1) : s[i] < s[i + 1]} : k \in 1..n}

\* symmetric and positive semi-definite: every principal minor is >= 0
IsCovariance(m) ==
    /\ \A i, j \in 1..Len(m) : m[i][j] = m[j][i]
    /\ \A idx \in IncreasingSeqs(Len(m)) : RSign(Det0(m, idx)) >= 0

Covariances(n) == {m \in Matrices(n, n, -MaxCov..MaxCov) : IsCovariance(m)}

ResultsObjects(classes) ==
    UNION {[params : Vectors(n, 0..MaxParam),
            normalized_cov_params : {None} \cup {A2(m) : m \in Covariances(n)},
            scale : Scales,
            model : [df_resid : DfResids],
            class_name : classes] : n \in Dims}

\* contrast arguments: 1-d of length n, or 2-d with q rows and n columns
RMatrices ==
    UNION {{A1(v) : v \in Vectors(n, RVals)} : n \in Dims}
    \cup UNION {{A2(m) : m \in Matrices(q, n, RVals)} : q \in RowCounts, n \in Dims}

\* index arguments (Python indices, from 0): 0-d, or 1-d of distinct indices
IndexArgs ==
    {A0(i) : i \in 0..1}
    \cup {A1(s) : s \in {<<0>>, <<1>>, <<0, 1>>, <<1, 0>>}}

\* q_matrix arguments: 1-d, or a 2-d column
QMatrices ==
    UNION {{A1(v) : v \in Vectors(k, {1})} : k \in RowCounts}
    \cup UNION {{A2(m) : m \in Matrices(k, 1, {1})} : k \in RowCounts}

\* invcov arguments
Invcovs == {A2(<< <<Q(2)>> >>), A2(<< <<Q(2), Q(1)>>, <<Q(1), Q(1)>> >>)}

\* other arguments of cov_params
Others == {A1(v) : v \in Vectors(2, RVals)} \cup {A2(<< <<Q(1), Q(0)>>, <<Q(1), Q(1)>> >>)}

\* the contrasts that are combined with every other argument
SomeRMatrices ==
    {A1(<<One>>), A1(<<One, Zero>>), A2(<< <<One, One>> >>), A2(<< <<One>>, <<One>> >>),
     A2(<< <<One, Zero>>, <<Zero, One>> >>), A2(<< <<One, One>>, <<One, One>> >>)}

\* the (r_matrix, column, scale, other) combinations passed to cov_params
CovParamsArgs ==
    [r_matrix : {None, A0(One)} \cup RMatrices, column : {None},
     scale : {None, A0(Q(3))}, other : {None}]
    \cup [r_matrix : {None} \cup SomeRMatrices, column : {None},
          scale : {None, A0(Q(3))}, other : Others]
    \cup [r_matrix : {None, A1(<<One, Zero>>)}, column : IndexArgs,
          scale : {None, A0(Q(3))}, other : {None, A1(<<Zero, One>>)}]

\* the (r_matrix, q_matrix, invcov) combinations passed to f_test
FTestArgs ==
    [r_matrix : RMatrices, q_matrix : {None}, invcov : {None}]
    \cup [r_matrix : SomeRMatrices, q_matrix : {None} \cup QMatrices,
          invcov : {None} \cup Invcovs]

-----------------------------------------------------------------------------
(* The state machine: a caller invoking methods on one results object *)

NoCall ==
    [method |-> "", r_matrix |-> None, column |-> None, scale |-> None, other |-> None,
     q_matrix |-> None, invcov |-> None, alpha |-> Zero, cols |-> None]

TypeOK ==
    /\ pc \in {"idle", "returned"}
    /\ ret.kind \in {"none", "ok", "raise"}
    /\ (pc = "idle") <=> (ret.kind = "none")

Init0(classes) ==
    /\ self \in ResultsObjects(classes)
    /\ pc = "idle"
    /\ call = NoCall
    /\ ret = NoRet

Init == Init0({"LikelihoodModelResults"})

Returned(c, r) ==
    /\ pc' = "returned"
    /\ call' = c
    /\ ret' = r
    /\ UNCHANGED self

T ==
    /\ pc = "idle"
    /\ \E column \in {None} \cup IndexArgs :
        Returned([NoCall EXCEPT !.method = "t", !.column = column], t(self, column))

CovParams ==
    /\ pc = "idle"
    /\ \E a \in CovParamsArgs :
        Returned([NoCall EXCEPT !.method = "cov_params", !.r_matrix = a.r_matrix,
                                !.column = a.column, !.scale = a.scale, !.other = a.other],
                 cov_params(self, a.r_matrix, a.column, a.scale, a.other))

TTest ==
    /\ pc = "idle"
    /\ \E r_matrix \in {A0(One)} \cup RMatrices :
        Returned([NoCall EXCEPT !.method = "t_test", !.r_matrix = r_matrix],
                 t_test(self, r_matrix, None))

FTest ==
    /\ pc = "idle"
    /\ \E a \in FTestArgs :
        Returned([NoCall EXCEPT !.method = "f_test", !.r_matrix = a.r_matrix,
                                !.q_matrix = a.q_matrix, !.invcov = a.invcov],
                 f_test(self, a.r_matrix, a.q_matrix, One, a.invcov))

ConfInt ==
    /\ pc = "idle"
    /\ \E alpha \in Alphas, cols \in {None} \cup {c \in IndexArgs : c.nd = 1} :
        Returned([NoCall EXCEPT !.method = "conf_int", !.alpha = alpha, !.cols = cols],
                 conf_int(self, alpha, cols))

\* the caller drops the result and is ready for the next call
Discard ==
    /\ pc = "returned"
    /\ pc' = "idle"
    /\ call' = NoCall
    /\ ret' = NoRet
    /\ UNCHANGED self

Next == T \/ CovParams \/ TTest \/ FTest \/ ConfInt \/ Discard

Spec == Init /\ [][Next]_vars

\* conf_int across the results classes
InitFamilies == Init0(ClassNames)
NextFamilies == ConfInt \/ Discard
SpecFamilies == InitFamilies /\ [][NextFamilies]_vars

-----------------------------------------------------------------------------
(* Properties of LikelihoodModelResults.  Each is stated over the state in *)
(* which a call has just returned: call holds the method and its           *)
(* arguments, ret what came back, self the object it was invoked on.       *)

Called(m) == pc = "returned" /\ call.method = m
HasCov == ~IsNone(self.normalized_cov_params)

\* the error kinds of the specification, as the exceptions that carry them
InvalidCombination(r) ==
    /\ r.kind = "raise"
    /\ r.exc = "ValueError"
    /\ r.msg \in {"Column should be specified without other arguments.",
                  "other can only be specified with r_matrix"}

CovarianceUnavailable(r) ==
    /\ r.kind = "raise"
    /\ r.exc = "ValueError"
    /\ r.msg \in {"need covariance of parameters for computing T statistics",
                  "need covariance of parameters for computing (unnormalized) covariances",
                  "Need covariance of parameters for computing T statistics",
                  "need covariance of parameters for computing F statistics"}

\* column together with r_matrix or other, or other without r_matrix
BadCombination(c) ==
    \/ ~IsNone(c.column) /\ (~IsNone(c.r_matrix) \/ ~IsNone(c.other))
    \/ ~IsNone(c.other) /\ IsNone(c.r_matrix)

\* the entries of an array in row-major order
Flat(a) ==
    IF a.nd = 0 THEN <<a.v>>
    ELSE IF a.nd = 1 THEN a.v
    ELSE LET m == Len(a.v[1])
         IN  [k \in 1..(Len(a.v) * m) |-> a.v[((k - 1) \div m) + 1][((k - 1) % m) + 1]]

\* a contrast as a list of rows
Rows(r) == IF r.nd = 1 THEN <<r.v>> ELSE r.v
\* r has one or two axes and as many columns as there are parameters
Aligned(r) == r.nd \in {1, 2} /\ Len(Rows(r)[1]) = Len(self.params)

\* x . M . y for vectors x, y and a matrix M
Bilinear(x, M, y) ==
    RSum([i \in 1..Len(x) |->
            RSum([j \in 1..Len(y) |-> RMul(RMul(x[i], M[i][j]), y[j])], Len(y))], Len(x))

\* x . params
Effect(x) == RSum([j \in 1..Len(x) |-> RMul(x[j], self.params[j])], Len(x))

\* the parameter covariance scale * normalized_cov_params, for a given scale
CovWith(s) ==
    [i \in 1..Len(self.params) |-> [j \in 1..Len(self.params) |->
        RMul(s, self.normalized_cov_params.v[i][j])]]

\* r . cov_params . r^T for the rows R
Sandwich(R) ==
    [i \in 1..Len(R) |-> [j \in 1..Len(R) |-> Bilinear(R[i], CovWith(self.scale), R[j])]]

IsIdentity(r) ==
    /\ r.nd = 2
    /\ Len(r.v) = Len(r.v[1])
    /\ \A i, j \in 1..Len(r.v) : r.v[i][j] = (IF i = j THEN One ELSE Zero)

\* M . N is the identity
InverseOf(M, N) ==
    \A i, j \in 1..Len(M) :
        RSum([k \in 1..Len(M) |-> RMul(M[i][k], N[k][j])], Len(M))
            = (IF i = j THEN One ELSE Zero)

\* Rbq = r_matrix . params - q_matrix for the f_test call that returned
\* (q_matrix zero when not supplied; numpy broadcasts a single row or entry)
Rbq ==
    LET R == Rows(call.r_matrix)
        q == IF IsNone(call.q_matrix) THEN [k \in 1..Len(R) |-> Zero]
             ELSE IF call.q_matrix.nd = 1 THEN call.q_matrix.v
             ELSE [k \in 1..Len(call.q_matrix.v) |-> call.q_matrix.v[k][1]]
        n == Max(Len(R), Len(q))
    IN  [k \in 1..n |-> RSub(Effect(R[IF Len(R) = 1 THEN 1 ELSE k]),
                             q[IF Len(q) = 1 THEN 1 ELSE k])]

\* the F value of a returned ContrastResults
FOf(r) == r.val.F.v[1][1]

\* C1 as the specification states it: cov_params fails with the
\* invalid-argument-combination error exactly when column comes with r_matrix or
\* other, or other comes without r_matrix.
C1_AsStated ==
    Called("cov_params") => (BadCombination(call) <=> InvalidCombination(ret))

\* C1: on a result that has a covariance, cov_params fails with the
\* invalid-argument-combination error exactly when column comes with r_matrix or
\* other, or other comes without r_matrix; without a covariance it never fails
\* with that error (the covariance-unavailable error comes first).
C1_InvalidCombination ==
    Called("cov_params") =>
        /\ HasCov => (BadCombination(call) <=> InvalidCombination(ret))
        /\ ~HasCov => ~InvalidCombination(ret)

C1_Witness ==
    /\ Called("cov_params")
    /\ HasCov
    /\ ~IsNone(call.other) /\ IsNone(call.r_matrix) /\ IsNone(call.column)
    /\ InvalidCombination(ret)

\* C2: t, cov_params, t_test and f_test each raise the covariance-unavailable
\* error, and return nothing, when normalized_cov_params is None.
C2_NoCovarianceRaises ==
    (pc = "returned" /\ call.method \in {"t", "cov_params", "t_test", "f_test"} /\ ~HasCov)
        => CovarianceUnavailable(ret)

C2_Witness ==
    /\ Called("cov_params")
    /\ ~HasCov
    /\ IsNone(call.r_matrix) /\ IsNone(call.column) /\ IsNone(call.other)
    /\ CovarianceUnavailable(ret)

\* C3 as the specification states it: for every r_matrix aligned with params t_test
\* returns effect = r . params, sd = sqrt of the diagonal of r . cov . r^T,
\* t = effect / sd and df_denom = df_resid; with the identity, effect = params,
\* sd = bse and t is what t() returns.
C3_AsStated ==
    (Called("t_test") /\ HasCov /\ Aligned(call.r_matrix)) =>
        LET R == Rows(call.r_matrix)
            V == Sandwich(R)
        IN  /\ ret.kind = "ok"
            /\ Flat(ret.val.effect) = [k \in 1..Len(R) |-> Effect(R[k])]
            /\ Flat(ret.val.sd) = [k \in 1..Len(R) |-> Sqrt(V[k][k])]
            /\ Flat(ret.val.t) = [k \in 1..Len(R) |-> FDivRat(Effect(R[k]), Sqrt(V[k][k]))]
            /\ ret.val.df_denom = self.model.df_resid
            /\ IsIdentity(call.r_matrix) =>
                /\ Flat(ret.val.effect) = self.params
                /\ Flat(ret.val.sd) = Flat(bse(self).val)
                /\ Flat(ret.val.t) = Flat(t(self, None).val)

\* C4 as the specification states it: f_test returns
\* F = Rbq^T . inverse(r . cov . r^T) . Rbq / q.
C4_AsStated ==
    (Called("f_test") /\ ret.kind = "ok") =>
        LET R == Rows(call.r_matrix)
            V == Sandwich(R)
        IN  /\ Det(V) # Zero
            /\ Len(Rbq) = Len(R)
            /\ LET M == inv(A2(V)).v
               IN  /\ InverseOf(M, V)
                   /\ FOf(ret) = RDiv(Bilinear(Rbq, M, Rbq), Q(Len(R)))

\* C4: f_test returns F = Rbq^T . M . Rbq / q, where M is the inverse of
\* r . cov . r^T when the caller passes no invcov, and the caller's invcov
\* otherwise.
C4_FStatistic ==
    (Called("f_test") /\ ret.kind = "ok") =>
        LET R == Rows(call.r_matrix)
            V == Sandwich(R)
        IN  IF IsNone(call.invcov)
            THEN /\ Det(V) # Zero
                 /\ Len(Rbq) = Len(R)
                 /\ LET M == inv(A2(V)).v
                    IN  /\ InverseOf(M, V)
                        /\ FOf(ret) = RDiv(Bilinear(Rbq, M, Rbq), Q(Len(R)))
            ELSE FOf(ret) = RDiv(Bilinear(Rbq, call.invcov.v, Rbq), Q(Len(R)))

C4_Witness ==
    /\ Called("f_test")
    /\ ret.kind = "ok"
    /\ IsNone(call.invcov)
    /\ Len(Rows(call.r_matrix)) = 2
    /\ ~IsNone(call.q_matrix)
    /\ FOf(ret) # Zero

\* C5 as the specification states it: on every call that returns, f_test reports
\* df_denom = df_resid and df_num = q, the number of rows of r_matrix, and F is
\* the quadratic form divided by q, also with the caller's invcov.
C5_AsStated ==
    (Called("f_test") /\ ret.kind = "ok") =>
        LET q == Len(Rows(call.r_matrix))
        IN  /\ ret.val.df_denom = self.model.df_resid
            /\ ret.val.df_num = q
            /\ ~IsNone(call.invcov) =>
                FOf(ret) = RDiv(Bilinear(Rbq, call.invcov.v, Rbq), Q(q))

\* C6 as the specification states it: for a single-row contrast r on a result with
\* a covariance, f_test(r).F is the square of t_test(r).t.
C6_AsStated ==
    (/\ Called("f_test")
     /\ HasCov
     /\ Len(Rows(call.r_matrix)) = 1
     /\ IsNone(call.q_matrix) /\ IsNone(call.invcov)
     /\ ret.kind = "ok") =>
        LET tt == t_test(self, call.r_matrix, None)
        IN  /\ tt.kind = "ok"
            /\ LET x == Flat(tt.val.t)[1] IN FMul(x, x) = FromRat(FOf(ret))

\* C7 as the specification states it: f_test raises whenever r . cov . r^T is
\* singular.
C7_AsStated ==
    (/\ Called("f_test")
     /\ HasCov
     /\ Aligned(call.r_matrix)
     /\ Det(Sandwich(Rows(call.r_matrix))) = Zero) =>
        ret.kind = "raise"

\* C7: f_test raises, and returns no F, whenever r . cov . r^T is singular and the
\* caller passes no invcov (the error is the singular-matrix error of the
\* inversion unless q_matrix was rejected first).
C7_SingularRaises ==
    (/\ Called("f_test")
     /\ HasCov
     /\ Aligned(call.r_matrix)
     /\ Det(Sandwich(Rows(call.r_matrix))) = Zero
     /\ IsNone(call.invcov)) =>
        /\ ret.kind = "raise"
        /\ IsNone(call.q_matrix) => ret.exc = "LinAlgError"

C7_Witness ==
    /\ Called("f_test")
    /\ HasCov
    /\ Aligned(call.r_matrix)
    /\ \E i \in 1..Len(self.params) : self.normalized_cov_params.v[i][i] # Zero
    /\ \E k \in 1..Len(Rows(call.r_matrix)), j \in 1..Len(self.params) :
        Rows(call.r_matrix)[k][j] # Zero
    /\ Det(Sandwich(Rows(call.r_matrix))) = Zero
    /\ IsNone(call.invcov)
    /\ ret.exc = "LinAlgError"

\* C8: with a covariance and a valid argument combination cov_params returns
\* scale * normalized_cov_params with no selector, scale * r . ncp . other^T
\* (other defaulting to r_matrix) with an aligned r_matrix, and
\* scale * normalized_cov_params at the column index or indices with column;
\* scale is self.scale unless the scale argument is passed.
C8_CovParamsValue ==
    (Called("cov_params") /\ HasCov /\ ~BadCombination(call)) =>
        LET s == IF IsNone(call.scale) THEN self.scale ELSE call.scale.v
            C == CovWith(s)
            p == Len(self.params)
            col == call.column
            o == IF IsNone(call.other) THEN call.r_matrix ELSE call.other
        IN  /\ (IsNone(col) /\ IsNone(call.r_matrix)) => ret = Ok(A2(C))
            /\ (~IsNone(call.r_matrix) /\ call.r_matrix.nd \in {1, 2}
                    /\ Len(Rows(call.r_matrix)[1]) = p /\ Len(Rows(o)[1]) = p) =>
                /\ ret.kind = "ok"
                /\ ret.val.nd = call.r_matrix.nd + o.nd - 2
                /\ Flat(ret.val) =
                     Flat(A2([i \in 1..Len(Rows(call.r_matrix)) |->
                              [j \in 1..Len(Rows(o)) |->
                                  Bilinear(Rows(call.r_matrix)[i], C, Rows(o)[j])]]))
            /\ (~IsNone(col) /\ col.nd = 0 /\ col.v < p) =>
                ret = Ok(A0(C[col.v + 1][col.v + 1]))
            /\ (~IsNone(col) /\ col.nd = 1 /\ \A i \in 1..Len(col.v) : col.v[i] < p) =>
                ret = Ok(A2([i \in 1..Len(col.v) |-> [j \in 1..Len(col.v) |->
                                C[col.v[i] + 1][col.v[j] + 1]]]))

C8_Witness ==
    /\ Called("cov_params")
    /\ HasCov
    /\ ~IsNone(call.r_matrix) /\ ~IsNone(call.other) /\ ~IsNone(call.scale)
    /\ call.scale.v # self.scale
    /\ ret.kind = "ok"
    /\ \E k \in 1..Len(Flat(ret.val)) : Flat(ret.val)[k] # Zero

\* the selected parameters of a conf_int call, as 1-based positions
Selected == IF IsNone(call.cols) THEN [i \in 1..Len(self.params) |-> i]
            ELSE [i \in 1..Len(call.cols.v) |-> call.cols.v[i] + 1]

\* the rows [params - c * bse, params + c * bse] of the selected parameters
Interval(c) ==
    [i \in 1..Len(Selected) |->
        <<FSub(FromRat(self.params[Selected[i]]), FScale(bse(self).val.v[Selected[i]], c)),
          FAdd(FromRat(self.params[Selected[i]]), FScale(bse(self).val.v[Selected[i]], c))>>]

\* the quantile 1 - alpha / 2 of a conf_int call
Quantile == RSub(One, RDiv(call.alpha, Q(2)))

C10_SubsetOfRows ==
    (Called("conf_int") /\ ~IsNone(call.cols) /\ ret.kind = "ok") =>
        LET full == conf_int(self, call.alpha, None)
        IN  /\ full.kind = "ok"
            /\ Len(ret.val.v) = Len(call.cols.v)
            /\ \A i \in 1..Len(call.cols.v) : ret.val.v[i] = full.val.v[call.cols.v[i] + 1]
            /\ \E c \in {norm_ppf(Quantile), t_ppf(Quantile, self.model.df_resid)} :
                /\ ret.val.v = Interval(c)
                /\ full.val.v = [i \in 1..Len(self.params) |->
                        <<FSub(FromRat(self.params[i]), FScale(bse(self).val.v[i], c)),
                          FAdd(FromRat(self.params[i]), FScale(bse(self).val.v[i], c))>>]
            /\ (RLt(Zero, call.alpha) /\ RLt(call.alpha, One)) =>
                \A i \in 1..Len(call.cols.v) :
                    /\ FLe(ret.val.v[i][1], FromRat(self.params[call.cols.v[i] + 1]))
                    /\ FLe(FromRat(self.params[call.cols.v[i] + 1]), ret.val.v[i][2])

C10_Witness ==
    /\ Called("conf_int")
    /\ call.cols = A1(<<1, 0>>)
    /\ ret.kind = "ok"
    /\ RLt(call.alpha, One)
    /\ ret.val.v[1] # ret.val.v[2]
    /\ ret.val.v[1][1] # ret.val.v[1][2]

-----------------------------------------------------------------------------
(* Part II: the link functions of family/links.py.                          *)
(*                                                                         *)
(* A mean p is a rational.  A value that went through np.log or a          *)
(* distribution's ppf is kept symbolically in the same record as the other *)
(* float values: k = "log" is ln(a), k = "loglog" is ln(ln(a)) (a > 1),     *)
(* k = "exp" is exp(a), k = "ppf_norm" / "ppf_cauchy" is dbn.ppf(a) and     *)
(* k = "cdf_norm" / "cdf_cauchy" is dbn.cdf(a).  exp undoes log and cdf    *)
(* undoes ppf exactly; rounding error is not modelled.                     *)

\* means range over -1..MaxMean in steps of one quarter
MaxMean == 2

Sym(k, q) == [k |-> k, a |-> q, b |-> Zero, m |-> 1]
IsRat(x) == x.k = "fin" /\ x.b = Zero

\* Logit.tol = Log.tol = NegativeBinomial.tol = 1.0e-10 in the source.  The
\* products of numerators and denominators built on 10^10 exceed the 32-bit
\* integers of the model checker, so the model's tol is 10^-2: the links only
\* rely on 0 < tol < 1/2.
tol == Rat(1, 100)

\* q ^ n for a natural number n
RECURSIVE RPowNat(_, _)
RPowNat(q, n) == IF n = 0 THEN One ELSE RMul(q, RPowNat(q, n - 1))

\* np.clip(x, lo, hi) of a rational x; hi is a float value (it may be +inf)
clip(x, lo, hi) ==
    LET low == IF RLt(x, lo) THEN lo ELSE x
    IN  IF hi.k = "+inf" THEN low
        ELSE IF RLt(hi.a, low) THEN hi.a ELSE low

\* np.log
np_log(x) ==
    IF x.k = "nan" \/ x.k = "-inf" THEN NaN
    ELSE IF x.k = "+inf" THEN PInf
    ELSE IF IsRat(x)
    THEN IF RSign(x.a) < 0 THEN NaN
         ELSE IF RSign(x.a) = 0 THEN NInf
         ELSE IF x.a = One THEN FromRat(Zero)
         ELSE Sym("log", x.a)
    ELSE IF x.k = "log"
    THEN (IF RLt(One, x.a) THEN Sym("loglog", x.a) ELSE NaN)
    ELSE IF x.k = "exp" THEN FromRat(x.a)
    ELSE NaN

\* np.exp
np_exp(z) ==
    IF z.k = "nan" THEN NaN
    ELSE IF z.k = "+inf" THEN PInf
    ELSE IF z.k = "-inf" THEN FromRat(Zero)
    ELSE IF z.k = "log" THEN FromRat(z.a)
    ELSE IF z.k = "loglog" THEN Sym("log", z.a)
    ELSE IF IsRat(z) /\ z.a = Zero THEN FromRat(One)
    ELSE IF IsRat(z) THEN Sym("exp", z.a)
    ELSE NaN

\* -x
negative(x) ==
    IF x.k = "log" THEN Sym("log", RDiv(One, x.a))
    ELSE IF x.k = "+inf" THEN NInf
    ELSE IF x.k = "-inf" THEN PInf
    ELSE IF x.k = "fin" THEN FScale(x, Q(-1))
    ELSE NaN

\* 1. - x
one_minus(x) ==
    IF x.k = "fin" THEN FSub(FromRat(One), x)
    ELSE IF x.k = "+inf" THEN NInf
    ELSE IF x.k = "-inf" THEN PInf
    ELSE NaN

\* x / y for float values that are rational or special
divide(x, y) ==
    IF x.k = "nan" \/ y.k = "nan" THEN NaN
    ELSE IF x.k # "fin" /\ y.k # "fin" THEN NaN
    ELSE IF y.k # "fin" THEN FromRat(Zero)
    ELSE IF x.k # "fin"
    THEN (IF (x.k = "+inf") = (FSign(y) >= 0) THEN PInf ELSE NInf)
    ELSE FDivRat(x.a, y)

\* np.power(x, e) for the exponents the Power links use: integers and +-1/2
np_power(x, e) ==
    IF x.k = "nan" THEN NaN
    ELSE IF e = Zero THEN FromRat(One)
    ELSE IF e[2] = 1
    THEN IF x.k = "+inf" THEN (IF e[1] > 0 THEN PInf ELSE FromRat(Zero))
         ELSE IF ~IsRat(x)
         THEN (IF e[1] = 2 THEN FMul(x, x) ELSE IF e[1] = 1 THEN x ELSE FInv(x))
         ELSE IF e[1] > 0 THEN FromRat(RPowNat(x.a, e[1]))
         ELSE IF x.a = Zero THEN PInf
         ELSE FromRat(RDiv(One, RPowNat(x.a, -e[1])))
    ELSE IF x.k = "+inf" THEN (IF e[1] > 0 THEN PInf ELSE FromRat(Zero))
    ELSE IF RSign(x.a) < 0 THEN NaN
    ELSE IF e[1] > 0 THEN Sqrt(x.a)
    ELSE IF x.a = Zero THEN PInf
    ELSE FInv(Sqrt(x.a))

\* dbn.ppf(p) for the symmetric distributions norm and cauchy
ppf(dbn, p) ==
    IF RSign(p) < 0 \/ RLt(One, p) THEN NaN
    ELSE IF p = Zero THEN NInf
    ELSE IF p = One THEN PInf
    ELSE IF p = Rat(1, 2) THEN FromRat(Zero)
    ELSE Sym(IF dbn = "norm" THEN "ppf_norm" ELSE "ppf_cauchy", p)

\* dbn.cdf(z)
cdf(dbn, z) ==
    IF z.k = "nan" THEN NaN
    ELSE IF z.k = "+inf" THEN FromRat(One)
    ELSE IF z.k = "-inf" THEN FromRat(Zero)
    ELSE IF z.k = (IF dbn = "norm" THEN "ppf_norm" ELSE "ppf_cauchy") THEN FromRat(z.a)
    ELSE IF IsRat(z) /\ z.a = Zero THEN FromRat(Rat(1, 2))
    ELSE IF IsRat(z) THEN Sym(IF dbn = "norm" THEN "cdf_norm" ELSE "cdf_cauchy", z.a)
    ELSE NaN

\* the link instances: class, and the parameter the class takes
Link(cls) == [cls |-> cls, power |-> One, dbn |-> "", alpha |-> One]
Logit == Link("Logit")
Power(power) == [Link("Power") EXCEPT !.power = power]
Log == Link("Log")
CDFLink(dbn) == [Link("CDFLink") EXCEPT !.dbn = dbn]
CLogLog == Link("CLogLog")
NegativeBinomial(alpha) == [Link("NegativeBinomial") EXCEPT !.alpha = alpha]

\* a Logit._clean that clamps at half the tolerance
Logit_clean_half_tol(p) ==
    clip(p, RDiv(tol, Q(2)), FromRat(RSub(One, RDiv(tol, Q(2)))))

\* Logit._clean, inherited by CDFLink and CLogLog
Logit_clean(p) == clip(p, tol, FromRat(RSub(One, tol)))

Logit_call(p) ==
    LET pc1 == Logit_clean(p) IN Ok(np_log(FromRat(RDiv(pc1, RSub(One, pc1)))))

Logit_inverse(z) ==
    LET t_ == np_exp(z) IN Ok(divide(t_, IF t_.k = "fin" THEN FAdd(FromRat(One), t_) ELSE t_))

Logit_deriv(p) ==
    LET pc1 == Logit_clean(p) IN Ok(FromRat(RDiv(One, RMul(pc1, RSub(One, pc1)))))

Power_call(l, p) == Ok(np_power(FromRat(p), l.power))
Power_inverse(l, z) == Ok(np_power(z, RDiv(One, l.power)))
Power_deriv(l, p) ==
    LET x == np_power(FromRat(p), RSub(l.power, One))
    IN  Ok(IF x.k = "fin" THEN FScale(x, l.power)
           ELSE IF x.k = "nan" THEN NaN
           ELSE IF (x.k = "+inf") = (RSign(l.power) > 0) THEN PInf ELSE NInf)

\* Log._clean
Log_clean(x) == clip(x, tol, PInf)

\* Log.__call__: x = self._clean(p) is computed, np.log(p) is returned
Log_call(p) == Ok(np_log(FromRat(p)))
Log_inverse(z) == Ok(np_exp(z))
Log_deriv(p) == Ok(FromRat(RDiv(One, Log_clean(p))))

CDFLink_call(l, p) == Ok(ppf(l.dbn, Logit_clean(p)))
CDFLink_inverse(l, z) == Ok(cdf(l.dbn, z))

CLogLog_call(p) ==
    Ok(np_log(negative(np_log(FromRat(RSub(One, Logit_clean(p)))))))
CLogLog_inverse(z) == Ok(one_minus(np_exp(negative(np_exp(z)))))

\* NegativeBinomial._clean
NegativeBinomial_clean(x) == clip(x, tol, PInf)

\* NegativeBinomial.__call__(self, x): its first statement, p = self._clean(p),
\* reads the local p before anything was assigned to it
NegativeBinomial_call(l, x) ==
    Raise("UnboundLocalError", "local variable 'p' referenced before assignment")

NegativeBinomial_inverse(l, z) ==
    LET e == np_exp(z)
    IN  Ok(IF e.k = "fin" THEN divide(e, FScale(one_minus(e), l.alpha))
           ELSE IF e.k = "+inf" THEN NaN
           ELSE NaN)

NegativeBinomial_deriv(l, p) ==
    LET d == RAdd(p, RMul(l.alpha, RMul(p, p)))
    IN  Ok(IF d = Zero THEN PInf ELSE FromRat(RDiv(One, d)))

\* link(p), link.inverse(z), link.deriv(p) by the class of the instance
link_call(l, p) ==
    CASE l.cls = "Logit" -> Logit_call(p)
      [] l.cls = "Power" -> Power_call(l, p)
      [] l.cls = "Log" -> Log_call(p)
      [] l.cls = "CDFLink" -> CDFLink_call(l, p)
      [] l.cls = "CLogLog" -> CLogLog_call(p)
      [] l.cls = "NegativeBinomial" -> NegativeBinomial_call(l, p)

link_inverse(l, z) ==
    CASE l.cls = "Logit" -> Logit_inverse(z)
      [] l.cls = "Power" -> Power_inverse(l, z)
      [] l.cls = "Log" -> Log_inverse(z)
      [] l.cls = "CDFLink" -> CDFLink_inverse(l, z)
      [] l.cls = "CLogLog" -> CLogLog_inverse(z)
      [] l.cls = "NegativeBinomial" -> NegativeBinomial_inverse(l, z)

link_deriv(l, p) ==
    CASE l.cls = "Logit" -> Logit_deriv(p)
      [] l.cls = "Power" -> Power_deriv(l, p)
      [] l.cls = "Log" -> Log_deriv(p)
      [] l.cls = "NegativeBinomial" -> NegativeBinomial_deriv(l, p)

\* the instances the model draws: the classes and the module's aliases
Links ==
    {Logit, Log, CLogLog, CDFLink("norm"), CDFLink("cauchy"),
     NegativeBinomial(One), NegativeBinomial(Q(2))}
    \cup {Power(w) : w \in {Q(-1), Rat(1, 2), Q(-2), One, Q(2)}}

\* the means passed to a link: a grid of quarters, and the neighbourhood of the
\* clamping points tol and 1 - tol
Means ==
    {Rat(k, 4) : k \in -4..(4 * MaxMean)}
    \cup {RDiv(tol, Q(2)), tol, RMul(tol, Q(2)),
          RSub(One, RMul(tol, Q(2))), RSub(One, tol), RSub(One, RDiv(tol, Q(2)))}

LinkNoCall == [method |-> "", p |-> Zero, z |-> NaN]

InitLinks ==
    /\ self \in Links
    /\ pc = "idle"
    /\ call = LinkNoCall
    /\ ret = NoRet

LinkCall ==
    /\ pc = "idle"
    /\ \E p \in Means :
        Returned([LinkNoCall EXCEPT !.method = "call", !.p = p], link_call(self, p))

LinkDeriv ==
    /\ pc = "idle"
    /\ self.cls \in {"Logit", "Power", "Log", "NegativeBinomial"}
    /\ \E p \in Means :
        Returned([LinkNoCall EXCEPT !.method = "deriv", !.p = p], link_deriv(self, p))

\* the caller feeds what link(p) returned to link.inverse
LinkInverse ==
    /\ pc = "returned"
    /\ call.method = "call"
    /\ ret.kind = "ok"
    /\ Returned([call EXCEPT !.method = "inverse", !.z = ret.val],
                link_inverse(self, ret.val))

LinkDiscard ==
    /\ pc = "returned"
    /\ pc' = "idle"
    /\ call' = LinkNoCall
    /\ ret' = NoRet
    /\ UNCHANGED self

NextLinks == LinkCall \/ LinkDeriv \/ LinkInverse \/ LinkDiscard

SpecLinks == InitLinks /\ [][NextLinks]_vars

-----------------------------------------------------------------------------
(* Part III: Model.__init__ of model.py.                                    *)

\* observations (rows) and regressors (columns of exog) of the data drawn
MaxObs == 3
MaxExog == 2

\* 'x%d' % i and 'y%d' % i
XNames == <<"x0", "x1", "x2", "x3", "x4">>
YNames == <<"y1", "y2", "y3">>

\* exog.var(0) == 0: the columns (counted from 0, ascending) that hold one
\* value in every row
ConstantColumns(exog) ==
    {j \in 0..(Len(exog.v[1]) - 1) :
        \A i \in 1..Len(exog.v) : exog.v[i][j + 1] = exog.v[1][j + 1]}

\* the names given to the columns of exog when const_idx is the constant one
ExogNames(p, const_idx) ==
    IF const_idx = p - 1
    THEN [i \in 1..p |-> IF i = p THEN "const" ELSE XNames[i + 1]]
    ELSE [i \in 1..p |-> IF i = const_idx + 1 THEN "const" ELSE XNames[i]]

\* what the block under "if not exog is None" leaves: the 2-d exog and its
\* names, or the exception it raises
Model_exog(endog, exog0) ==
    LET a == IF exog0.nd = 1 THEN Column(exog0.v) ELSE exog0
    IN  IF a.nd # 2 THEN Raise("ValueError", "exog is not 1d or 2d")
        ELSE IF endog.nd = 0 THEN Raise("IndexError", "tuple index out of range")
        ELSE IF Len(endog.v) # Len(a.v)
        THEN Raise("ValueError", "endog and exog matrices are not aligned.")
        ELSE LET consts == ConstantColumns(a)
                 p == Len(a.v[1])
             IN  IF consts = {} THEN Ok([exog |-> a, exog_names |-> [i \in 1..p |-> XNames[i]]])
                 ELSE IF Cardinality(consts) # 1
                 THEN Raise("ValueError", "can only convert an array of size 1 to a Python scalar")
                 ELSE Ok([exog |-> a,
                          exog_names |-> ExogNames(p, CHOOSE j \in consts : TRUE)])

\* Model.__init__(endog, exog): the object it builds, or what it raises.  An
\* exog_names of <<>> stands for the attribute not being set.
Model_init(endog0, exog0) ==
    LET endog == squeeze(endog0)
        x == IF IsNone(exog0) THEN Ok([exog |-> None, exog_names |-> <<>>])
             ELSE Model_exog(endog, exog0)
    IN  IF x.kind = "raise" THEN x
        ELSE IF endog.nd = 0 THEN Raise("IndexError", "tuple index out of range")
        ELSE Ok([endog |-> endog,
                 exog |-> x.val.exog,
                 exog_names |-> x.val.exog_names,
                 endog_names |-> IF endog.nd = 1 \/ Len(endog.v[1]) = 1 THEN <<"y">>
                                 ELSE [i \in 1..Len(endog.v[1]) |-> YNames[i]],
                 nobs |-> Len(endog.v)])

\* endog: n observations as a vector, as a column, or of two variables
Endogs ==
    UNION {{A1([i \in 1..n |-> Q(i)]),
            A2([i \in 1..n |-> <<Q(i)>>]),
            A2([i \in 1..n |-> <<Q(i), Q(i + 1)>>])} : n \in 1..MaxObs}

\* exog: absent, a scalar, a vector, or an n x p matrix, with entries 0 and 1
Exogs ==
    {None, A0(One)}
    \cup UNION {{A1(v) : v \in Vectors(n, {0, 1})} : n \in 1..MaxObs}
    \cup UNION {{A2(m) : m \in Matrices(n, p, {0, 1})} : n \in 1..MaxObs, p \in 1..MaxExog}

NoModel ==
    [endog |-> None, exog |-> None, exog_names |-> <<>>, endog_names |-> <<>>, nobs |-> 0]

ModelNoCall == [method |-> "", endog |-> None, exog |-> None]

InitModel ==
    /\ self = NoModel
    /\ pc = "idle"
    /\ call = ModelNoCall
    /\ ret = NoRet

\* Model(endog, exog): self is the object when the constructor returns
ModelInit ==
    /\ pc = "idle"
    /\ \E endog \in Endogs, exog \in Exogs :
        LET r == Model_init(endog, exog)
        IN  /\ pc' = "returned"
            /\ call' = [method |-> "__init__", endog |-> endog, exog |-> exog]
            /\ ret' = (IF r.kind = "ok" THEN Ok(None) ELSE r)
            /\ self' = (IF r.kind = "ok" THEN r.val ELSE NoModel)

ModelDiscard ==
    /\ pc = "returned"
    /\ pc' = "idle"
    /\ call' = ModelNoCall
    /\ ret' = NoRet
    /\ self' = NoModel

NextModel == ModelInit \/ ModelDiscard

SpecModel == InitModel /\ [][NextModel]_vars

-----------------------------------------------------------------------------
(* Part IV: contrastfromcols of contrast.py, with rank, fullrank and        *)
(* isestimable of tools.py.                                                *)
(*                                                                         *)
(* Designs and requests are rational matrices, and ranks, products and the *)
(* pseudo-inverse are computed exactly; the singular vector fullrank takes *)
(* has norm 1, so its entries are float values with a square root.         *)

SubMatrix(m, rs, cs) == [i \in 1..Len(rs) |-> [j \in 1..Len(cs) |-> m[rs[i]][cs[j]]]]
IncreasingOfLen(k, n) == {s \in [1..k -> 1..n] : \A i \in 1..(k - 1) : s[i] < s[i + 1]}

\* the number of non-zero singular values of a matrix (a sequence of rows):
\* the size of its largest non-zero minor
MatrixRank(m) ==
    LET nr == Len(m)
        nc == Len(m[1])
        ks == {k \in 1..(IF nr < nc THEN nr ELSE nc) :
                 \E rs \in IncreasingOfLen(k, nr), cs \in IncreasingOfLen(k, nc) :
                     Det(SubMatrix(m, rs, cs)) # Zero}
    IN  IF ks = {} THEN 0 ELSE CHOOSE k \in ks : \A j \in ks : j <= k

\* rank(X): singular values above cond for a 2-d X, not all zero for a 1-d X
rank(X) ==
    IF X.nd = 2 THEN MatrixRank(X.v)
    ELSE IF \A i \in 1..Len(X.v) : X.v[i] = Zero THEN 0 ELSE 1

\* a pinv that returns the transpose
pinv_as_transpose(D) == transpose(D)

\* rank(D) independent columns of D, as a matrix (D not zero)
IndependentColumns(D) ==
    LET r == MatrixRank(D.v)
        rows == [i \in 1..Len(D.v) |-> i]
    IN  A2(SubMatrix(D.v, rows,
                     CHOOSE c \in IncreasingOfLen(r, Len(D.v[1])) :
                         MatrixRank(SubMatrix(D.v, rows, c)) = r))

\* (B' B)^-1 B' for B of full column rank, F' (F F')^-1 for F of full row rank
LeftInverse(B) == dot(inv(dot(transpose(B), B)), transpose(B))
RightInverse(F) == dot(transpose(F), inv(dot(F, transpose(F))))

\* the Moore-Penrose inverse of D = B F, F = Bp D, from the left inverse Bp of B
pinv_factored(D, Bp) == dot(RightInverse(dot(Bp, D)), Bp)

\* numpy.linalg.pinv(D), the Moore-Penrose inverse: with D = B F, B made of
\* rank(D) independent columns of D, it is F' (F F')^-1 (B' B)^-1 B'
pinv(D) ==
    IF MatrixRank(D.v) = 0
    THEN A2([i \in 1..Len(D.v[1]) |-> [j \in 1..Len(D.v) |-> Zero]])
    ELSE pinv_factored(D, LeftInverse(IndependentColumns(D)))

\* an array of floats from an array of rationals
asfloat(a) ==
    IF a.nd = 0 THEN A0(FromRat(a.v))
    ELSE IF a.nd = 1 THEN A1([i \in 1..Len(a.v) |-> FromRat(a.v[i])])
    ELSE A2([i \in 1..Len(a.v) |-> [j \in 1..Len(a.v[1]) |-> FromRat(a.v[i][j])]])

RECURSIVE FSum(_, _)
\* sum of f[1..n], float values over one radicand
FSum(f, n) == IF n = 0 THEN FromRat(Zero) ELSE FAdd(FSum(f, n - 1), f[n])

\* np.dot of a rational matrix and a matrix of float values
fdot(a, b) ==
    A2([i \in 1..Len(a.v) |-> [j \in 1..Len(b.v[1]) |->
          FSum([k \in 1..Len(b.v) |-> FScale(b.v[k][j], a.v[i][k])], Len(b.v))]])

\* fullrank(X) for X of rank 0 or 1.  Rank 0: value stays [] and the result is
\* the empty 1-d array.  Rank 1: the left singular vector of the one non-zero
\* singular value, a column of X divided by its norm; svd fixes it up to the
\* sign sgn.
fullrank(X, sgn) ==
    IF rank(X) = 0 THEN A1(<<>>)
    ELSE LET j == CHOOSE c \in 1..Len(X.v[1]) :
                      /\ \E i \in 1..Len(X.v) : X.v[i][c] # Zero
                      /\ \A d \in 1..(c - 1) : \A i \in 1..Len(X.v) : X.v[i][d] = Zero
             norm2 == RSum([i \in 1..Len(X.v) |-> RMul(X.v[i][j], X.v[i][j])], Len(X.v))
         IN  A2([i \in 1..Len(X.v) |->
                   <<FScale(FInv(Sqrt(norm2)), RMul(Q(sgn), X.v[i][j]))>>])

\* the orientation test of contrastfromcols with the two cases exchanged
column_space_request_contrast_first(L, D) == ~(Shape(L)[2] = Len(D.v[1]))

\* contrastfromcols: L.shape[0] == n, L stands for columns in the column
\* space of D
column_space_request(L, D) == Shape(L)[1] = Len(D.v)

\* contrastfromcols: C = np.dot(pseudo, Lp).T of the columns fullrank left
fullrank_contrast(pseudo, Lp) ==
    IF Lp.nd = 1 THEN Raise("ValueError", "objects are not aligned")
    ELSE Ok(squeeze(transpose(fdot(pseudo, Lp))))

\* contrastfromcols: the contrast returned for C and Lp = D C' (2-d)
estimable_contrast(pseudo, C, Lp, sgn) ==
    IF rank(Lp) = Len(Lp.v[1]) THEN Ok(squeeze(asfloat(C)))
    ELSE fullrank_contrast(pseudo, fullrank(Lp, sgn))

\* contrastfromcols: Lp.shape = (n, 1) for a 1-d Lp
as_columns(Lp) == IF Lp.nd = 1 THEN Column(Lp.v) ELSE Lp

\* contrastfromcols from "Lp = np.dot(D, C.T)" on
contrast_projected(D, pseudo, C, sgn) ==
    estimable_contrast(pseudo, C, as_columns(dot(D, transpose(C))), sgn)

\* contrastfromcols past the shape test, with the pseudo-inverse at hand
contrast_oriented(L, D, pseudo, sgn) ==
    contrast_projected(D, pseudo,
                       IF L.nd = 1 \/ column_space_request(L, D)
                       THEN transpose(dot(pseudo, L))
                       ELSE transpose(dot(pseudo, dot(D, transpose(L)))),
                       sgn)

\* contrastfromcols(L, D) with pseudo = None, for a 1-d or 2-d L
contrastfromcols(L, D, sgn) ==
    IF L.nd = 1 /\ Len(L.v) # Len(D.v) THEN Raise("IndexError", "tuple index out of range")
    ELSE IF L.nd = 2 /\ Len(L.v) # Len(D.v) /\ Len(L.v[1]) # Len(D.v[1])
    THEN Raise("ValueError", "shape of L and D mismatched")
    ELSE contrast_oriented(L, D, pinv(D), sgn)

\* a row of float values b_i * sqrt(m) over one radicand m, without the
\* factor sqrt(m): the rank of a matrix does not change
RowDirection(row) ==
    IF \A j \in 1..Len(row) : row[j].b = Zero
    THEN [j \in 1..Len(row) |-> row[j].a]
    ELSE [j \in 1..Len(row) |-> row[j].b]

\* isestimable(C, D), C an array of floats
isestimable(C, D) ==
    LET C1 == IF C.nd = 1 THEN Column(C.v) ELSE atleast_2d(C)
    IN  IF Len(C1.v[1]) # Len(D.v[1])
        THEN Raise("ValueError", "array dimensions must agree except for d_0")
        ELSE LET new == A2([i \in 1..Len(C1.v) |-> RowDirection(C1.v[i])] \o D.v)
             IN  Ok(rank(new) = rank(D))

\* the shapes of the designs of two observations, n by p
DesignShapes == {<<2, 1>>, <<2, 2>>}

\* designs of three observations and one or two columns
DesignsTall ==
    {A2(<< <<One>>, <<One>>, <<Zero>> >>),
     A2(<< <<One, Zero>>, <<Zero, One>>, <<One, One>> >>),
     A2(<< <<One, Zero>>, <<One, One>>, <<One, One>> >>),
     A2(<< <<One, One>>, <<One, One>>, <<One, One>> >>)}

\* designs of three columns
Designs3 ==
    {A2(<< <<One, Zero, Zero>>, <<One, One, Zero>>, <<One, One, One>> >>),
     A2(<< <<One, One, Zero>>, <<Zero, One, One>>, <<One, Zero, One>> >>),
     A2(<< <<One, Zero, One>>, <<Zero, One, One>>, <<One, One, Q(2)>> >>)}

Designs ==
    UNION {{A2(m) : m \in Matrices(sh[1], sh[2], {0, 1})} : sh \in DesignShapes}
    \cup DesignsTall \cup Designs3

\* the shapes of a 2-d request
RequestShapes ==
    {<<1, 1>>, <<1, 2>>, <<1, 3>>, <<2, 1>>, <<2, 2>>, <<2, 3>>, <<3, 1>>, <<3, 2>>}

\* L: vectors, one or two columns of n entries, one or two rows of p entries
\* (so that a request stands for at most two columns of the column space),
\* and a matrix of each shape that matches D in neither orientation
Requests(D) ==
    UNION {{A1(v) : v \in Vectors(n, {0, 1})} : n \in 1..3}
    \cup UNION {{A2(m) : m \in Matrices(Len(D.v), q, {0, 1})} : q \in 1..2}
    \cup UNION {{A2(m) : m \in Matrices(q, Len(D.v[1]), {0, 1})} : q \in 1..2}
    \cup {A2([i \in 1..sh[1] |-> [j \in 1..sh[2] |-> One]]) :
            sh \in {rs \in RequestShapes : rs[1] # Len(D.v) /\ rs[2] # Len(D.v[1])}}

\* contrasts handed to isestimable directly
Contrasts(D) ==
    UNION {{A2(m) : m \in Matrices(q, Len(D.v[1]), {0, 1})} : q \in 1..2}

ContrastNoCall == [method |-> "", L |-> None, sgn |-> 1, C |-> None]

InitContrast ==
    /\ self \in {[D |-> d] : d \in Designs}
    /\ pc = "idle"
    /\ call = ContrastNoCall
    /\ ret = NoRet

ContrastFromCols ==
    /\ pc = "idle"
    /\ \E L \in Requests(self.D), sgn \in {1, -1} :
        Returned([ContrastNoCall EXCEPT !.method = "contrastfromcols", !.L = L, !.sgn = sgn],
                 contrastfromcols(L, self.D, sgn))

IsEstimable ==
    /\ pc = "idle"
    /\ \E C \in Contrasts(self.D) :
        Returned([ContrastNoCall EXCEPT !.method = "isestimable", !.C = asfloat(C)],
                 isestimable(asfloat(C), self.D))

\* the caller hands the contrast it got from contrastfromcols to isestimable
IsEstimableOfContrast ==
    /\ pc = "returned"
    /\ call.method = "contrastfromcols"
    /\ ret.kind = "ok"
    /\ Returned([call EXCEPT !.method = "isestimable", !.C = ret.val],
                isestimable(ret.val, self.D))

ContrastDiscard ==
    /\ pc = "returned"
    /\ pc' = "idle"
    /\ call' = ContrastNoCall
    /\ ret' = NoRet
    /\ UNCHANGED self

NextContrast == ContrastFromCols \/ IsEstimable \/ IsEstimableOfContrast \/ ContrastDiscard

SpecContrast == InitContrast /\ [][NextContrast]_vars

-----------------------------------------------------------------------------
(* Claims about the links.                                                 *)

\* the argument of a logarithm: x = ln(LogArg(x))
IsLog(x) == x.k = "log" \/ x = FromRat(Zero)
LogArg(x) == IF x.k = "log" THEN x.a ELSE One

\* the domain on which a link does not clamp and is one to one
ValidDomain(l, p) ==
    IF l.cls \in {"Logit", "CDFLink", "CLogLog"}
    THEN ~RLt(p, tol) /\ ~RLt(RSub(One, tol), p)
    ELSE IF l.cls = "NegativeBinomial" THEN ~RLt(p, tol)
    ELSE RLt(Zero, p)

\* C17: for every link and every p of its valid unclamped domain,
\* inverse(call(p)) equals p.
C17_AsStated ==
    (Called("call") /\ ValidDomain(self, call.p)) =>
        /\ ret.kind = "ok"
        /\ link_inverse(self, ret.val) = Ok(FromRat(call.p))

\* the round trip of the links whose call returns
C17_RoundTripWhereCallReturns ==
    (Called("inverse") /\ ValidDomain(self, call.p)) => ret = Ok(FromRat(call.p))

LogitLow == RDiv(tol, RSub(One, tol))
LogitHigh == RDiv(RSub(One, tol), tol)

\* C18: Logit call and deriv clamp p to [tol, 1 - tol] first: for every p,
\* also p <= 0 and p >= 1, call(p) lies between log(tol/(1-tol)) and
\* log((1-tol)/tol) and deriv(p) is finite; call(0) and call(1) are exactly
\* those two bounds.  (log is increasing, so the logarithms are compared by
\* their arguments.)
C18_LogitClamps ==
    (self = Logit /\ pc = "returned") =>
        /\ ret.kind = "ok"
        /\ call.method = "call" =>
            /\ IsLog(ret.val)
            /\ ~RLt(LogArg(ret.val), LogitLow)
            /\ ~RLt(LogitHigh, LogArg(ret.val))
            /\ ~RLt(Zero, call.p) => ret.val = Sym("log", LogitLow)
            /\ ~RLt(call.p, One) => ret.val = Sym("log", LogitHigh)
        /\ call.method = "deriv" =>
            /\ IsRat(ret.val)
            /\ ret.val = FromRat(RDiv(One, RMul(Logit_clean(call.p), RSub(One, Logit_clean(call.p)))))

C18_Witness ==
    /\ self = Logit
    /\ Called("call")
    /\ call.p = Zero
    /\ ret = Ok(Sym("log", LogitLow))

\* C19: Log.call is the logarithm of p clamped to [tol, +inf), so call(p) is
\* log(tol) for every p <= tol, and Log.deriv is 1/p of the same clamped p.
C19_AsStated ==
    (self = Log /\ pc = "returned") =>
        /\ ret.kind = "ok"
        /\ call.method = "call" => ret.val = np_log(FromRat(Log_clean(call.p)))
        /\ call.method = "deriv" => ret.val = FromRat(RDiv(One, Log_clean(call.p)))

\* C20: the negative binomial link's call returns log(p/(p + 1/alpha)) of the
\* mean clipped below at tol, and raises for no input.
C20_AsStated ==
    (self.cls = "NegativeBinomial" /\ Called("call")) =>
        LET p == NegativeBinomial_clean(call.p)
        IN  /\ ret.kind = "ok"
            /\ ret.val = np_log(FromRat(RDiv(p, RAdd(p, RDiv(One, self.alpha)))))

-----------------------------------------------------------------------------
(* Claims about Model.__init__.                                            *)

\* the rows of an argument as it is passed (exog as a vector is one column)
RowsOf(a) == Len(a.v)
ColsOf(a) == IF a.nd = 1 THEN 1 ELSE Len(a.v[1])
DimensionMismatch(r) ==
    /\ r.kind = "raise"
    /\ r.exc = "ValueError"
    /\ r.msg = "endog and exog matrices are not aligned."

\* C16: construction fails with a dimension-mismatch error whenever endog and
\* exog differ in their number of rows; for every exog with as many rows as
\* endog it succeeds and stores exog as an n x p matrix with exactly p names.
C16_AsStated ==
    (Called("__init__") /\ call.exog.nd \in {1, 2}) =>
        IF RowsOf(call.endog) # RowsOf(call.exog)
        THEN DimensionMismatch(ret)
        ELSE /\ ret.kind = "ok"
             /\ self.exog.nd = 2
             /\ Shape(self.exog) = <<RowsOf(call.exog), ColsOf(call.exog)>>
             /\ Len(self.exog_names) = ColsOf(call.exog)

\* what construction does where endog has two observations or more and exog
\* has at most one constant column
C16_Regular ==
    (/\ Called("__init__")
     /\ call.exog.nd \in {1, 2}
     /\ RowsOf(call.endog) > 1
     /\ Cardinality(ConstantColumns(IF call.exog.nd = 1 THEN Column(call.exog.v)
                                     ELSE call.exog)) <= 1) =>
        IF RowsOf(call.endog) # RowsOf(call.exog)
        THEN DimensionMismatch(ret)
        ELSE /\ ret.kind = "ok"
             /\ Shape(self.exog) = <<RowsOf(call.exog), ColsOf(call.exog)>>
             /\ Len(self.exog_names) = ColsOf(call.exog)

-----------------------------------------------------------------------------
(* Claims about contrastfromcols and isestimable.                          *)

DesignRows == Len(self.D.v)
DesignCols == Len(self.D.v[1])
RowsMatch(L) == Len(L.v) = DesignRows
ColsMatch(L) == L.nd = 2 /\ Len(L.v[1]) = DesignCols
ShapeMismatch(r) ==
    /\ r.kind = "raise"
    /\ r.exc = "ValueError"
    /\ r.msg = "shape of L and D mismatched"

\* the contrast of a 2-d request read as columns of the column space, and
\* read as a contrast matrix
FromColumns(L) == transpose(dot(pinv(self.D), L))
FromContrast(L) == transpose(dot(pinv(self.D), dot(self.D, transpose(L))))
Projected(C) == dot(self.D, transpose(C))
UnitRow(i, p) == [j \in 1..p |-> IF j = i THEN One ELSE Zero]

\* C11: a request with as many rows as D is read as columns of the column
\* space and C = (pinv(D) L)' is returned, also when it has as many columns
\* as D as well; only otherwise, with as many columns as D, L itself is the
\* contrast matrix C.
C11_AsStated ==
    (Called("contrastfromcols") /\ call.L.nd = 2 /\ (RowsMatch(call.L) \/ ColsMatch(call.L))) =>
        ret = Ok(squeeze(asfloat(IF RowsMatch(call.L) THEN FromColumns(call.L) ELSE call.L)))

\* C11, as the code has it: a request with as many rows as D (also one that
\* has as many columns as D as well) is read as columns of the column space,
\* C = (pinv(D) L)'; only otherwise, with as many columns as D, it is read as
\* a contrast matrix, and C = (pinv(D) D L')', which is L when D has full
\* column rank.  C is returned, squeezed, where D C' has full column rank.
C11_Orientation ==
    (Called("contrastfromcols") /\ call.L.nd = 2 /\ (RowsMatch(call.L) \/ ColsMatch(call.L))) =>
        LET C == IF RowsMatch(call.L) THEN FromColumns(call.L) ELSE FromContrast(call.L)
        IN  /\ rank(Projected(C)) = Len(C.v) => ret = Ok(squeeze(asfloat(C)))
            /\ (~RowsMatch(call.L) /\ rank(self.D) = DesignCols) => C = call.L

C11_Witness ==
    /\ Called("contrastfromcols")
    /\ call.L.nd = 2
    /\ RowsMatch(call.L)
    /\ ColsMatch(call.L)
    /\ FromColumns(call.L) # FromContrast(call.L)
    /\ ret = Ok(asfloat(FromColumns(call.L)))

\* C12: contrastfromcols fails with the shape-mismatch error whenever the
\* rows of L differ from n and its columns from p, for 2-d and 1-d L alike,
\* and never fails with it when one of the two matches.
C12_AsStated ==
    Called("contrastfromcols") =>
        (ShapeMismatch(ret) <=> ~(RowsMatch(call.L) \/ ColsMatch(call.L)))

\* C13: for every request that matches the design in one orientation a
\* contrast is returned and nothing is raised; the contrast has rank(D C')
\* rows, and is a 1-d vector of length p when that rank is 1.
C13_AsStated ==
    (Called("contrastfromcols") /\ call.L.nd = 2 /\ (RowsMatch(call.L) \/ ColsMatch(call.L))) =>
        LET C == IF RowsMatch(call.L) THEN FromColumns(call.L) ELSE FromContrast(call.L)
            r == rank(Projected(C))
        IN  /\ ret.kind = "ok"
            /\ r = 1 => (ret.val.nd = 1 /\ Len(ret.val.v) = DesignCols)
            /\ r # 1 => (ret.val.nd = 2 /\ Len(ret.val.v) = r /\ Len(ret.val.v[1]) = DesignCols)

\* the same without the designs of one column and the requests that project
\* to zero
C13_RankOfProjection ==
    (Called("contrastfromcols") /\ call.L.nd = 2 /\ (RowsMatch(call.L) \/ ColsMatch(call.L))) =>
        LET C == IF RowsMatch(call.L) THEN FromColumns(call.L) ELSE FromContrast(call.L)
            r == rank(Projected(C))
        IN  (r > 0 /\ DesignCols > 1) =>
                /\ ret.kind = "ok"
                /\ r = 1 => (ret.val.nd = 1 /\ Len(ret.val.v) = DesignCols)
                /\ r # 1 => (ret.val.nd = 2 /\ Len(ret.val.v) = r /\ Len(ret.val.v[1]) = DesignCols)

\* the columns of a request lie in the column span of D
InColumnSpace(L) ==
    LET cols == IF L.nd = 1 THEN Column(L.v) ELSE L
    IN  rank(A2([i \in 1..DesignRows |-> self.D.v[i] \o cols.v[i]])) = rank(self.D)

\* C14: for a request of n rows whose columns lie in the column span of D,
\* isestimable(contrastfromcols(L, D), D) is True; isestimable(C, D) is true
\* exactly when rank(vstack(C, D)) = rank(D).
C14_AsStated ==
    /\ (Called("contrastfromcols") /\ RowsMatch(call.L) /\ InColumnSpace(call.L)) =>
        /\ ret.kind = "ok"
        /\ isestimable(ret.val, self.D) = Ok(TRUE)
    /\ (Called("isestimable") /\ IsNone(call.L)) =>
        ret = Ok(rank(A2([i \in 1..Len(call.C.v) |->
                            [j \in 1..DesignCols |-> call.C.v[i][j].a]] \o self.D.v))
                 = rank(self.D))

\* the same for the requests of two independent columns
C14_TwoColumns ==
    (/\ Called("isestimable")
     /\ ~IsNone(call.L)
     /\ call.L.nd = 2
     /\ RowsMatch(call.L)
     /\ InColumnSpace(call.L)
     /\ rank(call.L) = 2) => ret = Ok(TRUE)

\* C15: for a design of full column rank and a request made of its columns i
\* and j (two columns, i # j), the contrast is the two unit rows e_i and e_j,
\* in the order of the request.
C15_UnitRows ==
    Called("contrastfromcols") =>
        \A i, j \in 1..DesignCols :
            (/\ i # j
             /\ rank(self.D) = DesignCols
             /\ call.L = A2([k \in 1..DesignRows |-> <<self.D.v[k][i], self.D.v[k][j]>>])) =>
                ret = Ok(asfloat(A2(<<UnitRow(i, DesignCols), UnitRow(j, DesignCols)>>)))

C15_Witness ==
    /\ Called("contrastfromcols")
    /\ DesignCols = 3
    /\ rank(self.D) = 3
    /\ call.L = A2([k \in 1..DesignRows |-> <<self.D.v[k][3], self.D.v[k][1]>>])
    /\ self.D.v[1] # UnitRow(1, 3)
    /\ ret = Ok(asfloat(A2(<<UnitRow(3, 3), UnitRow(1, 3)>>)))

-----------------------------------------------------------------------------
(* Claims about f_test and its q_matrix.                                   *)

\* C27: f_test raises a ValueError whenever q_matrix has another number of
\* rows than r_matrix, given 1-d or as a column, and never computes F from
\* misaligned operands.  (numpy's LinAlgError, a ValueError in later releases,
\* is let pass as one.)
C27_AsStated ==
    (/\ Called("f_test")
     /\ ~IsNone(call.q_matrix)
     /\ Len(call.q_matrix.v) # Len(Rows(call.r_matrix))) =>
        /\ ret.kind = "raise"
        /\ ret.exc \in {"ValueError", "LinAlgError"}

\* the row test as the code makes it: for a q_matrix of one axis
C27_OneAxis ==
    (/\ Called("f_test")
     /\ HasCov
     /\ Aligned(call.r_matrix)
     /\ ~IsNone(call.q_matrix)
     /\ call.q_matrix.nd = 1
     /\ Len(call.q_matrix.v) # Len(Rows(call.r_matrix))) =>
        /\ ret.kind = "raise"
        /\ ret.exc = "ValueError"
        /\ ret.msg = "r_matrix and q_matrix must have the same number of rows"

-----------------------------------------------------------------------------
(* Part V: LikelihoodModel.fit of model.py with method='newton'.  score     *)
(* and hessian are the subclass's.  Here the log-likelihood is a sum over  *)
(* the parameters of -p^2/2 ("quadratic") or -p^4/4 ("quartic"), so that   *)
(* every Newton step is an exact rational: a quadratic term jumps to its   *)
(* optimum 0 in one update, a quartic term moves two thirds of the way and *)
(* has a singular Hessian at 0.  fopt, the value of -loglike, is not       *)
(* carried.                                                                *)

\* the largest maxiter passed to fit
MaxIter == 3

\* self.score(params)
score(slf, params) ==
    A1([i \in 1..Len(params.v) |->
        IF slf.loglike[i] = "quadratic" THEN RNeg(params.v[i])
        ELSE RNeg(RMul(params.v[i], RMul(params.v[i], params.v[i])))])

\* self.hessian(params)
hessian(slf, params) ==
    A2([i \in 1..Len(params.v) |-> [j \in 1..Len(params.v) |->
        IF i # j THEN Zero
        ELSE IF slf.loglike[i] = "quadratic" THEN RNeg(One)
        ELSE RNeg(RMul(Q(3), RMul(params.v[i], params.v[i])))]])

\* np.inf, the oldparams before the first update
np_inf == A0(PInf)

\* a - b of two 1-d arrays of one length
minus(a, b) == A1([i \in 1..Len(a.v) |-> RSub(a.v[i], b.v[i])])

\* np.abs(newparams - oldparams) > tol, componentwise; against the 0-d
\* np.inf every difference is infinite
moved(newparams, oldparams, tl) ==
    [i \in 1..Len(newparams.v) |->
        IF oldparams.nd = 0 THEN TRUE
        ELSE RLt(tl, <<Abs(RSub(newparams.v[i], oldparams.v[i])[1]),
                       RSub(newparams.v[i], oldparams.v[i])[2]>>)]

\* a loop test that lets one more update through
newton_continues_once_more(c) ==
    /\ c.iterations <= c.maxiter
    /\ \A i \in 1..Len(c.newparams.v) : moved(c.newparams, c.oldparams, c.tol)[i]

\* the test of the while loop
newton_continues(c) ==
    /\ c.iterations < c.maxiter
    /\ \A i \in 1..Len(c.newparams.v) : moved(c.newparams, c.oldparams, c.tol)[i]

\* method.lower()
lower(method) == IF method = "Newton" THEN "newton" ELSE method

methods == {"newton", "nm", "bfgs", "powell", "cg", "ncg"}

\* the start of fit, up to the while loop: the locals, or what is raised.
\* Of the methods only 'newton' is drawn; the others hand over to scipy.optimize.
fit_enter(slf, c) ==
    IF IsNone(c.start_params) /\ IsNone(slf.exog)
    THEN Raise("ValueError", "If exog is None, then start_params should be specified")
    ELSE IF lower(c.fit_method) \notin methods
    THEN Raise("ValueError", "Unknown fit method")
    ELSE Ok([c EXCEPT
             !.fit_method = lower(c.fit_method),
             !.start_params = IF IsNone(c.start_params)
                              THEN A1([i \in 1..Len(slf.exog.v[1]) |-> Zero])
                              ELSE c.start_params,
             !.tol = IF IsNone(c.tol) THEN Rat(1, 100000000) ELSE c.tol.v,
             !.iterations = 0,
             !.oldparams = np_inf,
             !.newparams = IF IsNone(c.start_params)
                           THEN A1([i \in 1..Len(slf.exog.v[1]) |-> Zero])
                           ELSE c.start_params,
             !.history = IF c.retall = 1
                         THEN <<np_inf,
                                IF IsNone(c.start_params)
                                THEN A1([i \in 1..Len(slf.exog.v[1]) |-> Zero])
                                ELSE c.start_params>>
                         ELSE <<>>])

\* one pass of the loop body with the inverse Hinv of the Hessian at newparams
newton_update(slf, c, Hinv) ==
    [c EXCEPT
     !.oldparams = c.newparams,
     !.newparams = minus(c.newparams, dot(Hinv, score(slf, c.newparams))),
     !.history = IF c.retall = 1
                 THEN Append(c.history,
                             minus(c.newparams, dot(Hinv, score(slf, c.newparams))))
                 ELSE c.history,
     !.callbacks = IF c.callback THEN c.callbacks + 1 ELSE c.callbacks,
     !.iterations = c.iterations + 1]

\* the retvals of the newton branch when full_output is set
newton_retvals(slf, c) ==
    [iterations |-> c.iterations,
     score |-> score(slf, c.newparams),
     Hessian |-> hessian(slf, c.newparams),
     warnflag |-> IF c.iterations = c.maxiter THEN 1 ELSE 0,
     converged |-> ~(c.iterations = c.maxiter),
     allvecs |-> IF c.retall = 1 THEN c.history ELSE <<>>]

\* LikelihoodModelResults(self, xopt, Hinv, scale=1.) with its mle_retvals
mlefit(slf, c, Hinv) ==
    [params |-> c.newparams,
     normalized_cov_params |-> Hinv,
     scale |-> One,
     mle_retvals |-> newton_retvals(slf, c)]

\* the end of fit, after the loop: the results object, or what is raised
fit_return(slf, c) ==
    IF c.full_output = 0
    THEN Raise("UnboundLocalError", "local variable 'Hinv' referenced before assignment")
    ELSE IF Singular(Times(hessian(slf, c.newparams), Q(-1)))
    THEN Raise("LinAlgError", "Singular matrix")
    ELSE Ok(mlefit(slf, c, inv(Times(hessian(slf, c.newparams), Q(-1)))))

\* the models: one or two parameters, with or without exog
FitModels ==
    UNION {[exog : {None, A2(<<[i \in 1..n |-> One]>>)},
            loglike : [1..n -> {"quadratic", "quartic"}],
            _results : {None}] : n \in 1..2}
\* the components of start_params
StartVals == {0, 1}
FitMethods == {"newton", "Newton", "lbfgs"}
\* kwargs['tol'], None when it is not passed
FitTols == {None, A0(Rat(1, 2))}

FitNoCall ==
    [method |-> "", start_params |-> None, fit_method |-> "", maxiter |-> 0,
     full_output |-> 0, retall |-> 0, callback |-> FALSE, tol |-> None,
     iterations |-> 0, oldparams |-> None, newparams |-> None, history |-> <<>>,
     callbacks |-> 0]

InitFit ==
    /\ self \in FitModels
    /\ pc = "idle"
    /\ call = FitNoCall
    /\ ret = NoRet

\* fit is called and runs up to the test of the while loop
FitEnter ==
    /\ pc = "idle"
    /\ \E start_params \in {None} \cup {A1(v) : v \in Vectors(Len(self.loglike), StartVals)},
          fit_method \in FitMethods, maxiter \in 0..MaxIter, tl \in FitTols,
          full_output \in {0, 1}, retall \in {0, 1}, callback \in BOOLEAN :
        LET c == [FitNoCall EXCEPT !.method = "fit", !.start_params = start_params,
                                   !.fit_method = fit_method, !.maxiter = maxiter,
                                   !.full_output = full_output, !.retall = retall,
                                   !.callback = callback, !.tol = tl]
        IN  IF fit_enter(self, c).kind = "ok"
            THEN /\ pc' = "newton"
                 /\ call' = fit_enter(self, c).val
                 /\ UNCHANGED <<self, ret>>
            ELSE Returned(c, fit_enter(self, c))

\* one pass of the while loop; a singular Hessian ends the call
NewtonUpdate ==
    /\ pc = "newton"
    /\ newton_continues(call)
    /\ IF Singular(hessian(self, call.newparams))
       THEN Returned(call, Raise("LinAlgError", "Singular matrix"))
       ELSE /\ call' = newton_update(self, call, inv(hessian(self, call.newparams)))
            /\ UNCHANGED <<self, pc, ret>>

\* the loop is left and fit runs to its end
FitReturn ==
    /\ pc = "newton"
    /\ ~newton_continues(call)
    /\ pc' = "returned"
    /\ call' = call
    /\ ret' = fit_return(self, call)
    /\ self' = IF fit_return(self, call).kind = "ok"
               THEN [self EXCEPT !._results = fit_return(self, call).val]
               ELSE self

\* the caller drops the model and takes another
FitDiscard ==
    /\ pc = "returned"
    /\ pc' = "idle"
    /\ call' = FitNoCall
    /\ ret' = NoRet
    /\ self' \in FitModels

NextFit == FitEnter \/ NewtonUpdate \/ FitReturn \/ FitDiscard

SpecFit == InitFit /\ [][NextFit]_vars

-----------------------------------------------------------------------------
(* Claims about fit(method='newton').  In the state in which fit has       *)
(* returned, call holds the arguments and the locals as the loop left them. *)

\* the while loop was entered: the locals are set
InLoop == call.method = "fit" /\ ~IsNone(call.newparams)
\* the convergence test as the loop makes it, on the last update
TestMet == \E i \in 1..Len(call.newparams.v) : ~moved(call.newparams, call.oldparams, call.tol)[i]
\* fit returned its results object
FitGave == Called("fit") /\ ret.kind = "ok"

\* C23: with full_output=1, warnflag is 1 exactly when maxiter ran out and
\* the convergence test was not met, 0 exactly when it was met, and converged
\* is the negation of warnflag.
C23_AsStated ==
    FitGave =>
        /\ ret.val.mle_retvals.warnflag = (IF TestMet THEN 0 ELSE 1)
        /\ ret.val.mle_retvals.converged = (ret.val.mle_retvals.warnflag = 0)

\* what the code reports: warnflag is 1 exactly when iterations = maxiter
C23_CountOnly ==
    FitGave =>
        /\ ret.val.mle_retvals.warnflag = (IF call.iterations = call.maxiter THEN 1 ELSE 0)
        /\ ret.val.mle_retvals.converged = (ret.val.mle_retvals.warnflag = 0)

\* C24: for full_output=1 and full_output=0 alike, a fit whose optimizer ran
\* through returns a results object with the solution as params and stores
\* it as the model's _results.
C24_AsStated ==
    (/\ Called("fit")
     /\ call.fit_method = "newton"
     /\ ~(ret.kind = "raise" /\ ret.exc \in {"ValueError", "LinAlgError"})) =>
        /\ ret.kind = "ok"
        /\ ret.val.params = call.newparams
        /\ self._results = ret.val

\* with full_output=1 it is so
C24_FullOutput ==
    (/\ Called("fit")
     /\ call.fit_method = "newton"
     /\ call.full_output = 1
     /\ ~(ret.kind = "raise" /\ ret.exc \in {"ValueError", "LinAlgError"})) =>
        /\ ret.kind = "ok"
        /\ ret.val.params = call.newparams
        /\ self._results = ret.val

\* the counts of the loop agree and stay within maxiter
LoopCounts ==
    InLoop =>
        /\ call.iterations <= call.maxiter
        /\ call.callback => call.callbacks = call.iterations
        /\ call.retall = 1 =>
            /\ Len(call.history) = call.iterations + 2
            /\ call.history[2] = call.start_params
            /\ call.history[Len(call.history)] = call.newparams
        /\ FitGave =>
            /\ ret.val.mle_retvals.iterations = call.iterations
            /\ call.retall = 1 => ret.val.mle_retvals.allvecs = call.history

\* a step inside the loop is one update: it counts one iteration
LoopStep == (pc = "newton" /\ pc' = "newton") => call'.iterations = call.iterations + 1

\* C28: the Newton loop is left after at most maxiter updates (every step in
\* the loop counts one iteration, and iterations never passes maxiter);
\* iterations is the number of updates and of callback invocations, and
\* allvecs holds one vector per update after np.inf and the starting vector.
C28_LoopBounded == []LoopCounts /\ [][LoopStep]_vars

C28_Witness ==
    /\ FitGave
    /\ call.maxiter >= 2
    /\ call.iterations = call.maxiter
    /\ call.callback
    /\ call.callbacks = call.maxiter
    /\ call.retall = 1
    /\ Len(ret.val.mle_retvals.allvecs) = call.maxiter + 2

\* C29: a fit reported as converged has a last update that changed every
\* component by at most tol.
C29_AsStated ==
    (FitGave /\ ret.val.mle_retvals.converged) =>
        \A i \in 1..Len(call.newparams.v) : ~moved(call.newparams, call.oldparams, call.tol)[i]

\* what the loop ensures: some component changed by at most tol
C29_SomeComponent ==
    (FitGave /\ ret.val.mle_retvals.converged) => TestMet

-----------------------------------------------------------------------------
(* Part VI: add_constant of tools.py, on a design matrix (2-d, at least    *)
(* one row) that the caller holds and may replace by the result, as in     *)
(* data.exog = add_constant(data.exog).                                    *)

\* np.where(data[0] == 1): the columns whose first entry is one
ones_in_first_row(data) == {j \in 1..Len(data.v[1]) : data.v[1][j] = One}

\* np.all(data[:, col] == 1)
all_ones(data, col) == \A i \in 1..Len(data.v) : data.v[i][col] = One

\* np.column_stack((data, np.ones((data.shape[0], 1))))
column_stack_ones(data) == A2([i \in 1..Len(data.v) |-> Append(data.v[i], One)])

\* a search that looks at the first candidate column only
add_constant_first_candidate(data) ==
    IF /\ ones_in_first_row(data) # {}
       /\ all_ones(data, CHOOSE j \in ones_in_first_row(data) :
                             \A k \in ones_in_first_row(data) : j <= k)
    THEN data
    ELSE column_stack_ones(data)

add_constant(data) ==
    IF /\ Cardinality(ones_in_first_row(data)) = 1
       /\ \A col \in ones_in_first_row(data) : all_ones(data, col)
    THEN data
    ELSE IF /\ Cardinality(ones_in_first_row(data)) > 1
            /\ \E col \in ones_in_first_row(data) : all_ones(data, col)
    THEN data
    ELSE column_stack_ones(data)

\* the designs the caller starts from, with entries 0 and 1
AddConstantData ==
    UNION {{A2(m) : m \in Matrices(n, p, {0, 1})} : n \in 1..MaxObs, p \in 1..MaxExog}

AddConstantNoCall == [method |-> "", data |-> None]

\* self.calls counts the results of add_constant already put in place
InitAddConstant ==
    /\ self = [exog |-> None, calls |-> 0]
    /\ pc = "idle"
    /\ call = AddConstantNoCall
    /\ ret = NoRet

\* the caller loads a design
AddConstantLoad ==
    /\ pc = "idle"
    /\ IsNone(self.exog)
    /\ self' \in [exog : AddConstantData, calls : {0}]
    /\ UNCHANGED <<pc, call, ret>>

AddConstant ==
    /\ pc = "idle"
    /\ ~IsNone(self.exog)
    /\ Returned([method |-> "add_constant", data |-> self.exog],
                Ok(add_constant(self.exog)))

\* data.exog = add_constant(data.exog): the result replaces the design
AddConstantAssign ==
    /\ pc = "returned"
    /\ self.calls < 2
    /\ self' = [exog |-> ret.val, calls |-> self.calls + 1]
    /\ pc' = "idle"
    /\ call' = AddConstantNoCall
    /\ ret' = NoRet

\* the caller drops the result and the design
AddConstantDiscard ==
    /\ pc = "returned"
    /\ self' = [exog |-> None, calls |-> 0]
    /\ pc' = "idle"
    /\ call' = AddConstantNoCall
    /\ ret' = NoRet

NextAddConstant == AddConstantLoad \/ AddConstant \/ AddConstantAssign \/ AddConstantDiscard

SpecAddConstant == InitAddConstant /\ [][NextAddConstant]_vars

\* some column of the design consists of ones
HasOnesColumn(data) ==
    \E j \in 1..Len(data.v[1]) : \A i \in 1..Len(data.v) : data.v[i][j] = One

-----------------------------------------------------------------------------
(* Part VII: StepFunction and ECDF of tools.py.  The points of a step      *)
(* function are rationals and -inf; a sample is a 1-d array of rationals.  *)

\* the largest sample
MaxSample == 3

\* -np.inf among the rationals: below every one of them under RLt
NegInf == <<-1, 0>>

\* x is in increasing order
IsSorted(x) == \A i \in 1..(Len(x) - 1) : ~RLt(x[i + 1], x[i])

\* the orders np.argsort(x) may give: quicksort, so ties come in any order
argsort(x) ==
    {asort \in [1..Len(x) -> 1..Len(x)] :
        /\ \A i, j \in 1..Len(x) : i # j => asort[i] # asort[j]
        /\ IsSorted([i \in 1..Len(x) |-> x[asort[i]]])}

\* np.take(a, asort, 0)
take(a, asort) == [i \in 1..Len(asort) |-> a[asort[i]]]

\* x.sort() of ECDF: the sample in increasing order
sort(x) == take(x, CHOOSE asort \in argsort(x) : TRUE)

\* StepFunction.__init__(x, y, ival, sorted) with asort the order argsort gave
StepFunction_init(x, y, ival, sorted, asort) ==
    IF Len(x) # Len(y)
    THEN Raise("ValueError", "in StepFunction: x and y do not have the same shape")
    ELSE IF sorted
    THEN Ok([x |-> <<NegInf>> \o x, y |-> <<ival>> \o y, n |-> Len(x) + 1])
    ELSE Ok([x |-> take(<<NegInf>> \o x, asort),
             y |-> take(<<ival>> \o y, asort),
             n |-> Len(x) + 1])

\* np.searchsorted(a, v): the number of points below v
searchsorted(a, v) == Cardinality({i \in 1..Len(a) : RLt(a[i], v)})

\* StepFunction.__call__(time); the index -1 is the last one
StepFunction_call(slf, time) ==
    IF searchsorted(slf.x, time) - 1 = -1
    THEN slf.y[Len(slf.y)]
    ELSE slf.y[searchsorted(slf.x, time)]

\* ECDF(values) with asort the order argsort gives inside StepFunction
ECDF(values, asort) ==
    StepFunction_init(sort(values),
                      [i \in 1..Len(values) |-> Rat(i, Len(values))],
                      Zero, FALSE, asort)

Samples == UNION {Vectors(n, 0..2) : n \in 1..MaxSample}
\* where a step function is evaluated
ECDFTimes == {Q(k) : k \in -1..3} \cup {<<1, 2>>, NegInf}

NoStepFunction == [x |-> <<>>, y |-> <<>>, n |-> 0]
ECDFNoCall == [method |-> "", values |-> <<>>, time |-> Zero]

InitECDF ==
    /\ self = NoStepFunction
    /\ pc = "idle"
    /\ call = ECDFNoCall
    /\ ret = NoRet

\* F = ECDF(values)
ECDFCall ==
    /\ pc = "idle"
    /\ self = NoStepFunction
    /\ \E values \in Samples :
        \E asort \in argsort(<<NegInf>> \o sort(values)) :
            /\ self' = ECDF(values, asort).val
            /\ pc' = "returned"
            /\ call' = [ECDFNoCall EXCEPT !.method = "ECDF", !.values = values]
            /\ ret' = Ok(None)

\* F(time)
StepFunctionCall ==
    /\ pc = "idle"
    /\ self # NoStepFunction
    /\ \E time \in ECDFTimes :
        Returned([ECDFNoCall EXCEPT !.method = "__call__", !.time = time],
                 Ok(StepFunction_call(self, time)))

\* the caller is ready for the next call on F
ECDFDiscard ==
    /\ pc = "returned"
    /\ pc' = "idle"
    /\ call' = ECDFNoCall
    /\ ret' = NoRet
    /\ UNCHANGED self

\* the caller drops F
ECDFDrop ==
    /\ pc = "idle"
    /\ self # NoStepFunction
    /\ self' = NoStepFunction
    /\ UNCHANGED <<pc, call, ret>>

NextECDF == ECDFCall \/ StepFunctionCall \/ ECDFDiscard \/ ECDFDrop

SpecECDF == InitECDF /\ [][NextECDF]_vars

\* the sample behind F: its points after -inf
SampleOf(slf) == Tail(slf.x)
\* the number of sample values at or below v, and below v
CountAtOrBelow(slf, v) == Cardinality({i \in 1..Len(SampleOf(slf)) : ~RLt(v, SampleOf(slf)[i])})
CountBelow(slf, v) == Cardinality({i \in 1..Len(SampleOf(slf)) : RLt(SampleOf(slf)[i], v)})

\* C26: the step function F of ECDF(values) has F(v) = (number of sample
\* values <= v)/n for every real v: 0 left of the smallest value, 1 from
\* the largest value on, and a sample point counts itself.
C26_AsStated ==
    (Called("__call__") /\ call.time # NegInf) =>
        ret.val = Rat(CountAtOrBelow(self, call.time), Len(SampleOf(self)))

\* what F gives for a sample of distinct values: the share of the values
\* strictly below v, for every v above -inf
C26_StrictlyBelow ==
    (/\ Called("__call__")
     /\ call.time # NegInf
     /\ \A i, j \in 1..Len(SampleOf(self)) : i # j => SampleOf(self)[i] # SampleOf(self)[j]) =>
        ret.val = Rat(CountBelow(self, call.time), Len(SampleOf(self)))

-----------------------------------------------------------------------------
(* Part VIII: Contrast.compute_matrix of contrast.py.  The term and the    *)
(* formula are given by what they evaluate to: the columns T of the term   *)
(* (after the transpose) and the design D.                                 *)

\* clean0: np.flatnonzero(colsum), the columns that are not zero
flatnonzero_colsum(matrix) ==
    {j \in 1..Len(matrix.v[1]) : \E i \in 1..Len(matrix.v) : matrix.v[i][j] # Zero}

\* clean0(matrix): the matrix without its columns of zeros; np.array([]) when
\* none is left
clean0(matrix) ==
    IF flatnonzero_colsum(matrix) = {} THEN A1(<<>>)
    ELSE A2(SubMatrix(matrix.v, [i \in 1..Len(matrix.v) |-> i],
                      CHOOSE cs \in IncreasingOfLen(Cardinality(flatnonzero_colsum(matrix)),
                                                    Len(matrix.v[1])) :
                          {cs[k] : k \in DOMAIN cs} = flatnonzero_colsum(matrix)))

\* try: self.rank = self.matrix.shape[1] / except: self.rank = 1
rank_attribute(matrix) == IF matrix.nd = 2 THEN Len(matrix.v[1]) ELSE 1

\* the object after compute_matrix, given self.T and what contrastfromcols gave
contrast_attributes(slf, T_, r) ==
    IF r.kind = "ok"
    THEN Ok([D |-> slf.D, T |-> T_, _matrix |-> r.val, rank |-> rank_attribute(r.val)])
    ELSE r

\* Contrast.compute_matrix, with term the transposed value of the term
compute_matrix(slf, term, sgn) ==
    contrast_attributes(slf, clean0(as_columns(term)),
                        contrastfromcols(clean0(as_columns(term)), slf.D, sgn))

\* what a term evaluates to: one column, or one or two columns as a matrix
Terms(D) ==
    {A1(v) : v \in Vectors(Len(D.v), {0, 1})}
    \cup UNION {{A2(m) : m \in Matrices(Len(D.v), q, {0, 1})} : q \in 1..2}

\* a Contrast before compute_matrix: no T, no _matrix, no rank
NewContrast(D) == [D |-> D, T |-> None, _matrix |-> None, rank |-> 0]

ComputeNoCall == [method |-> "", term |-> None, sgn |-> 1]

InitCompute ==
    /\ self \in {NewContrast(d) : d \in Designs}
    /\ pc = "idle"
    /\ call = ComputeNoCall
    /\ ret = NoRet

ComputeMatrix ==
    /\ pc = "idle"
    /\ \E term \in Terms(self.D), sgn \in {1, -1} :
        /\ pc' = "returned"
        /\ call' = [method |-> "compute_matrix", term |-> term, sgn |-> sgn]
        /\ ret' = IF compute_matrix(self, term, sgn).kind = "ok"
                  THEN Ok(None)
                  ELSE compute_matrix(self, term, sgn)
        /\ self' = IF compute_matrix(self, term, sgn).kind = "ok"
                   THEN compute_matrix(self, term, sgn).val
                   ELSE [self EXCEPT !.T = clean0(as_columns(term))]

\* the caller takes another Contrast
ComputeDiscard ==
    /\ pc = "returned"
    /\ pc' = "idle"
    /\ call' = ComputeNoCall
    /\ ret' = NoRet
    /\ self' \in {NewContrast(d) : d \in Designs}

NextCompute == ComputeMatrix \/ ComputeDiscard

SpecCompute == InitCompute /\ [][NextCompute]_vars

\* compute_matrix returned
Computed == Called("compute_matrix") /\ ret.kind = "ok"
\* the number of rows of the contrast matrix, 1 for a single vector
MatrixRows == IF self._matrix.nd = 2 THEN Len(self._matrix.v) ELSE 1

\* C25: after compute_matrix the rank attribute is the rank of
\* dot(D, dot(pinv(D), T)), which is the number of rows of the contrast
\* matrix, for rank 1 and for larger ranks.
C25_AsStated ==
    Computed =>
        /\ self.rank = rank(dot(self.D, dot(pinv(self.D), self.T)))
        /\ self.rank = MatrixRows

\* what the attribute holds: the number of columns of a 2-d contrast matrix,
\* that is of the design, and 1 for a single vector; the rows are the rank
C25_Columns ==
    Computed =>
        /\ self.rank = (IF self._matrix.nd = 2 THEN Len(self.D.v[1]) ELSE 1)
        /\ MatrixRows = rank(dot(self.D, dot(pinv(self.D), self.T)))

-----------------------------------------------------------------------------
(* Part IX: StataReader of lib/io.py.  _header is an attribute of the      *)
(* class, a dict that _parse_header fills key by key and never rebinds; a  *)
(* dict is a record of its values with the set of the keys it holds.  Two  *)
(* names of the caller, 1 and 2, may each hold a reader.  A file is given  *)
(* by the header fields stored in it.                                      *)

\* the .dta files: their format byte, counts and label
DtaFiles == [ds_format : {104, 113, 114}, nvar : {1, 2}, nobs : {0, 1},
             data_label : {"", "auto"}]

\* the keys _parse_header writes
HeaderKeys == {"ds_format", "byteorder", "filetype", "nvar", "nobs", "data_label",
               "time_stamp", "typlist", "varlist", "srtlist", "fmtlist", "lbllist",
               "vlblist"}

\* _header = {}
EmptyHeader == [keys |-> {}, ds_format |-> 0, nvar |-> 0, nobs |-> 0, data_label |-> ""]

\* StataReader._parse_header(file) on the dict header: what it raises or
\* returns, and the dict afterwards
parse_header(header, file) ==
    IF file.ds_format \notin {113, 114}
    THEN [ret |-> Raise("ValueError", "Only file formats 113 and 114 are supported"),
          header |-> [header EXCEPT !.keys = @ \cup {"ds_format"},
                                    !.ds_format = file.ds_format]]
    ELSE [ret |-> Ok(None),
          header |-> [keys |-> HeaderKeys, ds_format |-> file.ds_format,
                      nvar |-> file.nvar, nobs |-> file.nobs,
                      data_label |-> file.data_label]]

\* no reader under a name; otherwise the name holds the file its reader parsed
NoReader == [ds_format |-> 0, nvar |-> 0, nobs |-> 0, data_label |-> ""]

\* what a method of a reader returns, read from the dict header
reader_method(method, header) ==
    IF method = "file_headers" THEN Ok(header)
    ELSE IF method = "file_format" THEN Ok(header.ds_format)
    ELSE IF method = "file_label" THEN Ok(header.data_label)
    ELSE IF method = "__len__" THEN Ok(header.nobs)
    ELSE Ok([i \in 1..header.nvar |-> i - 1])

ReaderMethods == {"file_headers", "file_format", "file_label", "__len__", "variables"}

StataNoCall == [method |-> "", reader |-> 0, file |-> NoReader]

InitStata ==
    /\ self = [_header |-> EmptyHeader, readers |-> <<NoReader, NoReader>>]
    /\ pc = "idle"
    /\ call = StataNoCall
    /\ ret = NoRet

\* name = StataReader(file); the name is bound only when __init__ returns
StataReaderInit ==
    /\ pc = "idle"
    /\ \E name \in 1..2, file \in DtaFiles :
        /\ pc' = "returned"
        /\ call' = [method |-> "__init__", reader |-> name, file |-> file]
        /\ ret' = parse_header(self._header, file).ret
        /\ self' = [_header |-> parse_header(self._header, file).header,
                    readers |-> IF parse_header(self._header, file).ret.kind = "ok"
                                THEN [self.readers EXCEPT ![name] = file]
                                ELSE self.readers]

\* a header method of the reader under a name
StataReaderMethod ==
    /\ pc = "idle"
    /\ \E name \in 1..2, method \in ReaderMethods :
        /\ self.readers[name] # NoReader
        /\ Returned([method |-> method, reader |-> name, file |-> self.readers[name]],
                    reader_method(method, self._header))

StataDiscard ==
    /\ pc = "returned"
    /\ pc' = "idle"
    /\ call' = StataNoCall
    /\ ret' = NoRet
    /\ UNCHANGED self

NextStata == StataReaderInit \/ StataReaderMethod \/ StataDiscard

SpecStata == InitStata /\ [][NextStata]_vars

\* the headers stored in a file
HeadersOf(file) ==
    [keys |-> HeaderKeys, ds_format |-> file.ds_format, nvar |-> file.nvar,
     nobs |-> file.nobs, data_label |-> file.data_label]

\* C30: every header method of a reader reports the headers of the file this
\* reader parsed, whatever other readers were constructed, or failed to be,
\* in the meantime.
C30_AsStated ==
    (pc = "returned" /\ call.method \in ReaderMethods) =>
        ret = reader_method(call.method, HeadersOf(call.file))

\* what the readers report: the header fields written last, by whichever
\* construction
C30_LastWritten ==
    (pc = "returned" /\ call.method \in ReaderMethods) =>
        ret = reader_method(call.method, self._header)

-----------------------------------------------------------------------------
(* Part X: the IRLS engine of the generalized linear model, as section 4.3 *)
(* of the specification describes it.  One iteration (weights, working     *)
(* response, weighted least squares, new mean) is one step; of its numbers *)
(* the model keeps the deviance, which the convergence test reads, and     *)
(* numbers the iterates: the iterate of iteration k is k.                  *)

\* |deviance_new - deviance_old| / deviance_old < tol
tolerance_met(deviance_old, deviance_new, tl) ==
    RLt(<<Abs(RDiv(RSub(deviance_new, deviance_old), deviance_old)[1]),
          RDiv(RSub(deviance_new, deviance_old), deviance_old)[2]>>, tl)

\* an engine that allows one iteration more than max_iter
irls_state_one_more(iteration, max_iter, met) ==
    IF met THEN "CONVERGED"
    ELSE IF iteration >= max_iter + 1 THEN "MAX_ITER_REACHED"
    ELSE "ITERATING"

\* the state after an iteration: the tolerance is met, or the count reaches
\* max_iter, or the engine goes on
irls_state(iteration, max_iter, met) ==
    IF met THEN "CONVERGED"
    ELSE IF iteration >= max_iter THEN "MAX_ITER_REACHED"
    ELSE "ITERATING"

\* what fit returns: the last iterate with the ConvergenceReport
irls_results(slf) ==
    [params |-> slf.iteration,
     converged |-> slf.state = "CONVERGED",
     iterations |-> slf.iteration,
     final_deviance_delta |-> slf.delta]

\* the engine after one iteration that ends with deviance_new
irls_iterate(slf, deviance_new) ==
    [slf EXCEPT
     !.iteration = slf.iteration + 1,
     !.deviance = deviance_new,
     !.delta = RSub(deviance_new, slf.deviance),
     !.state = irls_state(slf.iteration + 1, slf.max_iter,
                          tolerance_met(slf.deviance, deviance_new, slf.tol))]

\* the deviances an iteration may end with
Deviances == {Q(4), Q(2), Q(1), <<1, 2>>}
\* tol: the default 1e-8, and 3/4
IRLSTols == {Rat(1, 100000000), <<3, 4>>}

NewEngine(deviance) ==
    [state |-> "INITIALIZED", iteration |-> 0, max_iter |-> 0, tol |-> Zero,
     deviance |-> deviance, delta |-> Zero]

IRLSNoCall == [method |-> "", max_iter |-> 0, tol |-> Zero]

InitIRLS ==
    /\ self \in {NewEngine(d) : d \in Deviances}
    /\ pc = "idle"
    /\ call = IRLSNoCall
    /\ ret = NoRet

\* fit(tol, max_iter) is called: the engine starts to iterate
IRLSFit ==
    /\ pc = "idle"
    /\ self.state = "INITIALIZED"
    /\ \E max_iter \in 1..MaxIter, tl \in IRLSTols :
        /\ self' = [self EXCEPT !.state = "ITERATING", !.max_iter = max_iter, !.tol = tl]
        /\ call' = [method |-> "fit", max_iter |-> max_iter, tol |-> tl]
        /\ pc' = "fitting"
        /\ UNCHANGED ret

\* one iteration; fit returns when the engine leaves ITERATING
IRLSIterate ==
    /\ pc = "fitting"
    /\ self.state = "ITERATING"
    /\ \E deviance_new \in Deviances :
        /\ self' = irls_iterate(self, deviance_new)
        /\ pc' = IF irls_iterate(self, deviance_new).state = "ITERATING"
                 THEN "fitting" ELSE "returned"
        /\ ret' = IF irls_iterate(self, deviance_new).state = "ITERATING"
                  THEN ret ELSE Ok(irls_results(irls_iterate(self, deviance_new)))
        /\ UNCHANGED call

\* the caller drops the results and sets up another model
IRLSDiscard ==
    /\ pc = "returned"
    /\ self' \in {NewEngine(d) : d \in Deviances}
    /\ pc' = "idle"
    /\ call' = IRLSNoCall
    /\ ret' = NoRet

NextIRLS == IRLSFit \/ IRLSIterate \/ IRLSDiscard

SpecIRLS == InitIRLS /\ [][NextIRLS]_vars

\* the loop is sequential code with nothing to wait for: a fit that has
\* started goes on iterating
SpecIRLSFair == SpecIRLS /\ WF_vars(IRLSIterate)

\* the states of the engine follow one another in the order of section 4.3
IRLSOrder ==
    /\ self.state = "INITIALIZED" => self'.state \in {"INITIALIZED", "ITERATING"}
    /\ self.state = "ITERATING" =>
        /\ self'.state \in {"ITERATING", "CONVERGED", "MAX_ITER_REACHED"}
        /\ self'.state = "ITERATING" => self'.iteration = self.iteration + 1
    /\ self.state \in {"CONVERGED", "MAX_ITER_REACHED"} =>
        self'.state \in {self.state, "INITIALIZED"}

\* the count stays within max_iter, and a fit that ends returns the last
\* iterate with its flag and never raises
IRLSBounded ==
    /\ self.state # "INITIALIZED" => self.iteration <= self.max_iter
    /\ self.state \in {"CONVERGED", "MAX_ITER_REACHED"} =>
        /\ pc = "returned"
        /\ ret.kind = "ok"
        /\ ret.val.params = self.iteration
        /\ ret.val.iterations = self.iteration
        /\ ret.val.converged = (self.state = "CONVERGED")
    /\ self.state = "MAX_ITER_REACHED" =>
        /\ self.iteration = self.max_iter
        /\ ~ret.val.converged
        /\ ~tolerance_met(RSub(self.deviance, self.delta), self.deviance, self.tol)

\* C21: every IRLS fit goes INITIALIZED, ITERATING, then CONVERGED or
\* MAX_ITER_REACHED, within max_iter iterations; at max_iter without the
\* tolerance met it returns the last iterate with the non-convergence flag
\* and does not raise.
C21_IRLS ==
    /\ []IRLSBounded
    /\ [][IRLSOrder]_vars
    /\ (self.state = "ITERATING") ~> (self.state \in {"CONVERGED", "MAX_ITER_REACHED"})

C21_Witness ==
    /\ Called("fit")
    /\ self.state = "MAX_ITER_REACHED"
    /\ self.iteration = self.max_iter
    /\ self.max_iter >= 2
    /\ ret.kind = "ok"
    /\ ~ret.val.converged

=============================================================================
